---- MODULE Spec2Model ----
(***************************************************************************)
(* Selection and viewport state of the Oregon Dark Sky dashboard.          *)
(*                                                                         *)
(* Two front-ends hold that state: the Dash app (dash_app/app.py), where   *)
(* it lives in dcc.Store components written by the callbacks               *)
(* update_zoom_and_center and update_clicked_sites and read by             *)
(* update_dashboard, and the Streamlit app (streamlit_app/app.py), where   *)
(* it lives in st.session_state and is rewritten by every run of main().   *)
(* One behaviour of this module is one session of one of the two apps.     *)
(***************************************************************************)
EXTENDS Integers, FiniteSets, Sequences, TLC

----------------------------------------------------------------------------
(* Python values.  An optional value is a set with at most one element:    *)
(* None is the empty set.  A dictionary key is absent ({}), present with   *)
(* the value None ({{}}) or present with a value v ({{v}}).                *)

None == {}
Some(x) == {x}
Val(o) == CHOOSE x \in o : TRUE

KeyAbsent == {}
KeyNone == {None}
KeyVal(v) == {Some(v)}
HasKey(k) == k # KeyAbsent
KeyGet(k) == Val(k)

\* Python truthiness of an optional payload: None is falsy
Truthy(o) == o # None

----------------------------------------------------------------------------
(* Reference data: sites, their coordinates and the rows of each category. *)
(* Coordinates are in units of 1e-4 degree.                                *)

SiteNames == {"SiteA", "SiteB", "SiteC"}

\* sites_coordinates: SiteA and SiteB share one location
Geocode(site) ==
    CASE site = "SiteA" -> <<440000, -1230000>>
      [] site = "SiteB" -> <<440000, -1230000>>
      [] OTHER          -> <<450000, -1220000>>

\* keys of meas_type_dict
MeasTypeKeys ==
    { "clear_nights_brightness", "cloudy_nights_brightness", "long_term_trends",
      "milky_way_visibility", "% clear nights" }

\* the questions the radio offers in this model
RadioChoices == { "clear_nights_brightness", "long_term_trends" }

\* site names of the measurement rows of a category (the trends table only
\* holds the sites with enough years of data)
RowsOf(meas) ==
    CASE meas = "clear_nights_brightness"  -> {"SiteA", "SiteB", "SiteC"}
      [] meas = "cloudy_nights_brightness" -> {"SiteA", "SiteB", "SiteC"}
      [] meas = "long_term_trends"         -> {"SiteA"}
      [] OTHER                             -> {"SiteA", "SiteC"}

\* one map marker per location of the category's rows, carrying the names
\* of all the sites at that location (customdata)
MarkerSites(meas) ==
    { { s \in RowsOf(meas) : Geocode(s) = Geocode(t) } : t \in RowsOf(meas) }

\* the scatter plot is only drawn for the two brightness questions
HasScatter(meas) == meas \in {"clear_nights_brightness", "cloudy_nights_brightness"}

----------------------------------------------------------------------------
(* Dash: layout constants                                                  *)

\* dcc.Store(id='map-zoom-store', data=5)
InitialZoomStore == 5
\* dcc.Store(id='map-center-store', data=[44.0, -121.0])
InitialCenterStore == <<44, -121>>
\* zoom ceiling of update_zoom_and_center
MaxZoom == 10

\* the reset values of the refresh branch of update_zoom_and_center
RefreshZoom == 5
RefreshCenter == <<44, -121>>
\* the reset values update_dashboard renders with on a refresh trigger
DashboardRefreshZoom == 5
DashboardRefreshCenter == <<44, -121>>

\* ctx.triggered is empty (initial call of a callback)
NoTrigger == ""
\* a callback with no invocation outstanding
Idle == "idle"

----------------------------------------------------------------------------
(* Dash: the relayoutData dictionary of the map.  One field per key the    *)
(* callback looks at; `other` stands for any further key (autosize, ...).  *)

CenterDict(lat, lon) == [lat |-> lat, lon |-> lon]

EmptyRelayout ==
    [ mapbox_zoom |-> KeyAbsent, map_zoom |-> KeyAbsent,
      mapbox_center |-> KeyAbsent,
      mapbox_center_lat |-> KeyAbsent, mapbox_center_lon |-> KeyAbsent,
      map_center |-> KeyAbsent, other |-> FALSE ]

\* zoom levels a viewport event may carry
ZoomRequests == {8, 10, 15}
\* the center a viewport event may carry
PannedCenter == <<45, -120>>
PannedCenterDict == CenterDict(Some(PannedCenter[1]), Some(PannedCenter[2]))

\* the relayoutData dictionaries the map emits in this model
RelayoutPayloads ==
    { EmptyRelayout,
      [EmptyRelayout EXCEPT !.other = TRUE],
      [EmptyRelayout EXCEPT !.mapbox_zoom = KeyVal(11)],
      [EmptyRelayout EXCEPT !.mapbox_center = KeyVal(PannedCenterDict)],
      [EmptyRelayout EXCEPT !.mapbox_center_lat = KeyVal(PannedCenter[1]),
                            !.mapbox_center_lon = KeyVal(PannedCenter[2])],
      [EmptyRelayout EXCEPT !.mapbox_zoom = KeyNone, !.map_zoom = KeyVal(8),
                            !.mapbox_center = KeyNone,
                            !.map_center = KeyVal(PannedCenterDict)] }
    \cup { [EmptyRelayout EXCEPT !.map_zoom = KeyVal(z),
                                 !.map_center = KeyVal(PannedCenterDict)]
           : z \in ZoomRequests }

\* `k in relayoutData and relayoutData[k] is not None`
HasValue(k) == HasKey(k) /\ k # KeyNone
KeyValue(k) == Val(Val(k))
\* dict.get(key, default)
DictGet(o, default) == IF o = None THEN default ELSE Val(o)

\* variant of RelayoutZoom: without a zoom level the default zoom is taken
RelayoutZoom_Default(rd, current_zoom) ==
    IF HasValue(rd.mapbox_zoom) THEN KeyValue(rd.mapbox_zoom)
    ELSE IF HasValue(rd.map_zoom) THEN KeyValue(rd.map_zoom)
    ELSE RefreshZoom

\* the zoom the callback reads from a relayoutData dictionary
RelayoutZoom(rd, current_zoom) ==
    IF HasValue(rd.mapbox_zoom) THEN KeyValue(rd.mapbox_zoom)
    ELSE IF HasValue(rd.map_zoom) THEN KeyValue(rd.map_zoom)
    ELSE current_zoom

\* the center the callback reads from a relayoutData dictionary
RelayoutCenter(rd, current_center) ==
    IF HasValue(rd.mapbox_center)
    THEN << DictGet(KeyValue(rd.mapbox_center).lat, current_center[1]),
            DictGet(KeyValue(rd.mapbox_center).lon, current_center[2]) >>
    ELSE IF HasKey(rd.mapbox_center_lat) /\ HasKey(rd.mapbox_center_lon)
    THEN << KeyValue(rd.mapbox_center_lat), KeyValue(rd.mapbox_center_lon) >>
    ELSE IF HasValue(rd.map_center)
    THEN << Val(KeyValue(rd.map_center).lat), Val(KeyValue(rd.map_center).lon) >>
    ELSE current_center

\* `relayoutData` is truthy: neither None nor the empty dictionary
RelayoutTruthy(relayoutData) ==
    relayoutData # None /\ Val(relayoutData) # EmptyRelayout

ZoomOut(zoom, center, violation) ==
    [zoom |-> zoom, center |-> center, violation |-> violation]

\* variant of the map branch: the zoom is clamped but the flag is not raised
ZoomMapBranch_NoFlag(rd, current_zoom, current_center) ==
    LET zoom == RelayoutZoom(rd, current_zoom)
        center == RelayoutCenter(rd, current_center)
    IN  IF zoom > MaxZoom
        THEN ZoomOut(MaxZoom, current_center, FALSE)
        ELSE ZoomOut(zoom, center, FALSE)

\* variant of the map branch: the zoom is stored as requested
ZoomMapBranch_NoClamp(rd, current_zoom, current_center) ==
    LET zoom == RelayoutZoom(rd, current_zoom)
        center == RelayoutCenter(rd, current_center)
    IN  IF zoom > MaxZoom
        THEN ZoomOut(zoom, current_center, TRUE)
        ELSE ZoomOut(zoom, center, FALSE)

\* variant of the map branch: the flag is raised from the limit on
ZoomMapBranch_FlagAtLimit(rd, current_zoom, current_center) ==
    LET zoom == RelayoutZoom(rd, current_zoom)
        center == RelayoutCenter(rd, current_center)
    IN  IF zoom > MaxZoom
        THEN ZoomOut(MaxZoom, current_center, TRUE)
        ELSE ZoomOut(zoom, center, zoom = MaxZoom)

\* the map branch of update_zoom_and_center
ZoomMapBranch(rd, current_zoom, current_center) ==
    LET zoom == RelayoutZoom(rd, current_zoom)
        center == RelayoutCenter(rd, current_center)
    IN  IF zoom > MaxZoom
        THEN ZoomOut(MaxZoom, current_center, TRUE)
        ELSE ZoomOut(zoom, center, FALSE)

\* the refresh branch of update_zoom_and_center
ZoomRefreshBranch == ZoomOut(RefreshZoom, RefreshCenter, FALSE)

\* variant of update_zoom_and_center without the refresh branch
update_zoom_and_center_NoRefresh(trig, relayoutData, current_zoom, current_center) ==
    IF trig = NoTrigger
    THEN ZoomOut(current_zoom, current_center, FALSE)
    ELSE IF trig = "oregon-map" /\ RelayoutTruthy(relayoutData)
    THEN ZoomMapBranch(Val(relayoutData), current_zoom, current_center)
    ELSE ZoomOut(current_zoom, current_center, FALSE)

\* update_zoom_and_center(relayoutData, refresh_click, current_zoom, current_center)
\* under callback context `trig`
update_zoom_and_center(trig, relayoutData, current_zoom, current_center) ==
    IF trig = NoTrigger
    THEN ZoomOut(current_zoom, current_center, FALSE)
    ELSE IF trig = "oregon-map" /\ RelayoutTruthy(relayoutData)
    THEN ZoomMapBranch(Val(relayoutData), current_zoom, current_center)
    ELSE IF trig = "refresh-btn"
    THEN ZoomRefreshBranch
    ELSE ZoomOut(current_zoom, current_center, FALSE)

----------------------------------------------------------------------------
(* Dash: update_clicked_sites.  A click payload is modelled by the one     *)
(* field the callback reads: points[0].customdata (the site names of the   *)
(* marker), points[0].y (the bar's site) or points[0].hovertext.           *)

ClickOut(clicked, map, bar, scatter) ==
    [clicked |-> clicked, map |-> map, bar |-> bar, scatter |-> scatter]

ClickMapBranch(map_click) == ClickOut(Some(Val(map_click)), None, None, None)
\* variant of the bar branch: the bar chart's clickData is handed back as it came
ClickBarBranch_KeepsPayload(bar_click) ==
    ClickOut(Some({Val(bar_click)}), None, bar_click, None)
ClickBarBranch(bar_click) == ClickOut(Some({Val(bar_click)}), None, None, None)
\* variant of the scatter branch: the plot's clickData is handed back as it came
ClickScatterBranch_KeepsPayload(scatter_click) ==
    ClickOut(Some({Val(scatter_click)}), None, None, scatter_click)
ClickScatterBranch(scatter_click) == ClickOut(Some({Val(scatter_click)}), None, None, None)
ClickRefreshBranch == ClickOut(None, None, None, None)
\* variant of the keep branch: the selection is dropped
ClickKeepBranch_Clears(current_clicked) == ClickOut(None, None, None, None)
ClickKeepBranch(current_clicked) == ClickOut(current_clicked, None, None, None)

\* variant of update_clicked_sites: a bar click is added to the selection
update_clicked_sites_Merging(trig, map_click, bar_click, scatter_click, current_clicked) ==
    IF trig = NoTrigger
    THEN ClickKeepBranch(current_clicked)
    ELSE IF trig = "oregon-map" /\ Truthy(map_click)
    THEN ClickMapBranch(map_click)
    ELSE IF trig = "bar-chart" /\ Truthy(bar_click)
    THEN ClickOut(Some(DictGet(current_clicked, {}) \cup {Val(bar_click)}),
                  None, None, None)
    ELSE IF trig = "scatter-plot" /\ Truthy(scatter_click)
    THEN ClickScatterBranch(scatter_click)
    ELSE IF trig = "refresh-btn"
    THEN ClickRefreshBranch
    ELSE ClickKeepBranch(current_clicked)

\* update_clicked_sites(map_click, bar_click, scatter_click, refresh_click,
\* current_clicked) under callback context `trig`
update_clicked_sites(trig, map_click, bar_click, scatter_click, current_clicked) ==
    IF trig = NoTrigger
    THEN ClickKeepBranch(current_clicked)
    ELSE IF trig = "oregon-map" /\ Truthy(map_click)
    THEN ClickMapBranch(map_click)
    ELSE IF trig = "bar-chart" /\ Truthy(bar_click)
    THEN ClickBarBranch(bar_click)
    ELSE IF trig = "scatter-plot" /\ Truthy(scatter_click)
    THEN ClickScatterBranch(scatter_click)
    ELSE IF trig = "refresh-btn"
    THEN ClickRefreshBranch
    ELSE ClickKeepBranch(current_clicked)

----------------------------------------------------------------------------
(* Dash: update_dashboard.  The figures it returns are modelled by the      *)
(* arguments they are drawn from.                                          *)

Figure(meas, zoom, center, clicked) ==
    [meas |-> meas, zoom |-> zoom, center |-> center, highlight_sites |-> clicked]

\* variant of update_dashboard: the figures are always drawn from the stores
update_dashboard_FromStores(trig, meas, map_zoom, map_center, clicked_sites) ==
    Figure(meas, map_zoom, map_center, clicked_sites)

update_dashboard(trig, meas, map_zoom, map_center, clicked_sites) ==
    IF trig # NoTrigger /\ trig = "refresh-btn"
    THEN Figure(meas, DashboardRefreshZoom, DashboardRefreshCenter, None)
    ELSE Figure(meas, map_zoom, map_center, clicked_sites)

----------------------------------------------------------------------------
(* Data pipeline: values.  A DataFrame is the set of its column names and  *)
(* the sequence of its rows; a missing cell (NaN) is None.  A row carries  *)
(* the site name, the one numeric column the pipeline works on (`value`)   *)
(* and the cells the pipeline adds.  A call returns a value or raises.     *)

DataFrame(columns, rows) == [columns |-> columns, rows |-> rows]
\* pd.DataFrame(): no column, no row
EmptyDataFrame == DataFrame({}, << >>)

Row(site_name, value) ==
    [ site_name |-> site_name, value |-> value,
      latitude |-> None, longitude |-> None, color_rgba |-> None,
      DarkSkyCertified |-> None, DarkSkyQualified |-> None ]

Return(v) == [raised |-> None, value |-> Some(v)]
Raise(e) == [raised |-> Some(e), value |-> None]
Raised(r) == r.raised # None
Returned(r) == Val(r.value)

Min(S) == CHOOSE x \in S : \A y \in S : x <= y
Max(S) == CHOOSE x \in S : \A y \in S : x >= y
Range(seq) == { seq[i] : i \in DOMAIN seq }

----------------------------------------------------------------------------
(* Data pipeline: _add_color_map_column.  A colormap row is a bin boundary *)
(* and the colour built from its red, green and blue cells.                *)

ColormapColumns(colormap_bin_col) == {colormap_bin_col, "red", "green", "blue"}
ColormapRow(bin, color) == [bin |-> bin, color |-> color]

\* variant of site_color_bin: a value equal to a boundary falls in that bin
site_color_bin_Inclusive(value, bins) ==
    LET above_bins == IF value = None THEN {}
                      ELSE { b \in bins : b >= Val(value) }
    IN  IF above_bins = {} THEN Max(bins) ELSE Min(above_bins)

\* lines 141-147: the bin the value falls in (a comparison with NaN is false)
site_color_bin(value, bins) ==
    LET above_bins == IF value = None THEN {}
                      ELSE { b \in bins : b > Val(value) }
    IN  IF above_bins = {} THEN Max(bins) ELSE Min(above_bins)

\* variant of color: the colour of the last boundary that is not above the
\* value (of the first boundary when the value is below all of them)
color_OfBinBelow(value, colormap_df, colormap_bin_col) ==
    IF colormap_bin_col \notin colormap_df.columns
    THEN Raise("KeyError")
    ELSE LET rows == colormap_df.rows
             bins == { r.bin : r \in Range(rows) }
         IN  IF bins = {}
             THEN Raise("IndexError")
             ELSE IF ~ ({"red", "green", "blue"} \subseteq colormap_df.columns)
             THEN Raise("KeyError")
             ELSE LET below == IF value = None THEN {}
                               ELSE { b \in bins : b <= Val(value) }
                      bin == IF below = {} THEN Min(bins) ELSE Max(below)
                      first == Min({ i \in DOMAIN rows : rows[i].bin = bin })
                  IN  Return(rows[first].color)

\* lines 141-154 for one row
color(value, colormap_df, colormap_bin_col) ==
    IF colormap_bin_col \notin colormap_df.columns
    THEN Raise("KeyError")
    ELSE LET rows == colormap_df.rows
             bins == { r.bin : r \in Range(rows) }
         IN  IF bins = {}
             \* max() of no bin is NaN, no row equals it: `.values[0]` fails
             THEN Raise("IndexError")
             ELSE IF ~ ({"red", "green", "blue"} \subseteq colormap_df.columns)
             THEN Raise("KeyError")
             ELSE LET bin == site_color_bin(value, bins)
                      first == Min({ i \in DOMAIN rows : rows[i].bin = bin })
                  IN  Return(rows[first].color)

_add_color_map_column(df, colormap_df, value_col, colormap_bin_col) ==
    IF df.rows = << >>
    THEN Return(df)
    ELSE IF value_col \notin df.columns
    THEN Raise("KeyError")
    ELSE LET colors == [ i \in DOMAIN df.rows |->
                           color(df.rows[i].value, colormap_df, colormap_bin_col) ]
         IN  IF \E i \in DOMAIN colors : Raised(colors[i])
             THEN colors[Min({ i \in DOMAIN colors : Raised(colors[i]) })]
             ELSE Return(DataFrame(df.columns \cup {"color_rgba"},
                           [ i \in DOMAIN df.rows |->
                               [df.rows[i] EXCEPT !.color_rgba = colors[i].value] ]))

----------------------------------------------------------------------------
(* Data pipeline: the raw files and load_raw_data.                         *)

\* keys of _get_csv_file_map
FileKeys ==
    { "sites", "geocode", "clear_measurements", "cloudy_measurements", "trends",
      "milky_way", "cloud_coverage", "colormap_clear", "colormap_cloudy",
      "colormap_trends", "colormap_milky_way", "colormap_cloud_coverage" }

\* the data keys load_processed_data is called with
DataKeys ==
    { "clear_measurements", "cloudy_measurements", "trends", "milky_way",
      "cloud_coverage" }

\* a file of the raw directory: absent, present without a single byte, or
\* present with a header line and rows
MissingFile == [exists |-> FALSE, content |-> None]
ZeroByteFile == [exists |-> TRUE, content |-> None]
CsvFile(df) == [exists |-> TRUE, content |-> Some(df)]

\* pd.read_csv: a file without a header line has no columns to parse
read_csv(file) ==
    IF file.content = None THEN Raise("EmptyDataError")
    ELSE Return(Val(file.content))

\* lines 97-103
_load_single_csv(file) ==
    IF file.exists THEN read_csv(file) ELSE Return(EmptyDataFrame)

\* lines 48-56: the dictionary of all the tables, unless a read raises
load_raw_data(files) ==
    LET data == [ key \in FileKeys |-> _load_single_csv(files[key]) ]
    IN  IF \E key \in FileKeys : Raised(data[key])
        THEN data[CHOOSE key \in FileKeys : Raised(data[key])]
        ELSE Return([ key \in FileKeys |-> Returned(data[key]) ])

----------------------------------------------------------------------------
(* Data pipeline: load_processed_data.                                     *)

\* the rows of `right` with the site name of `row`, in the order of `right`
Matches(row, right_rows) ==
    SelectSeq(right_rows, LAMBDA g : g.site_name = row.site_name)

RECURSIVE MergeRows(_, _)
\* how="left": a left row without a match is kept with empty cells, a left
\* row with matches is repeated once per match
MergeRows(left_rows, right_rows) ==
    IF left_rows = << >> THEN << >>
    ELSE LET row == Head(left_rows)
             matches == Matches(row, right_rows)
             joined == IF matches = << >>
                       THEN << row >>
                       ELSE [ i \in DOMAIN matches |->
                                [row EXCEPT !.latitude = matches[i].latitude,
                                            !.longitude = matches[i].longitude] ]
         IN  joined \o MergeRows(Tail(left_rows), right_rows)

\* variant of merge: how="inner", the left rows without a match are dropped
merge_Inner(left, right) ==
    IF "site_name" \notin left.columns \/ "site_name" \notin right.columns
    THEN Raise("KeyError")
    ELSE Return(DataFrame(left.columns \cup right.columns,
                          MergeRows(SelectSeq(left.rows,
                                              LAMBDA r : Matches(r, right.rows) # << >>),
                                    right.rows)))

\* pd.merge(left, right, on="site_name", how="left")
merge(left, right) ==
    IF "site_name" \notin left.columns \/ "site_name" \notin right.columns
    THEN Raise("KeyError")
    ELSE Return(DataFrame(left.columns \cup right.columns,
                          MergeRows(left.rows, right.rows)))

\* lines 192-196
value_col(bar_chart_col) ==
    IF bar_chart_col = "x_brighter_than_darkest_night_sky"
    THEN "median_brightness_mag_arcsec2"
    ELSE bar_chart_col

\* variant of colormap_config: every data key gets the default entry
colormap_config_Default(data_key) ==
    << "colormap_cloudy", "brightness_mag_arcsec2" >>

\* lines 199-208: colormap key and bin column of a data key
colormap_config(data_key) ==
    CASE data_key = "clear_measurements"
           -> << "colormap_clear", "brightness_mag_arcsec2" >>
      [] data_key = "cloudy_measurements"
           -> << "colormap_cloudy", "brightness_mag_arcsec2" >>
      [] data_key = "trends"
           -> << "colormap_trends", "Rate_of_Change_vs_Prineville_Reservoir_State_Park" >>
      [] data_key = "milky_way"
           -> << "colormap_milky_way", "ratio_index" >>
      [] data_key = "cloud_coverage"
           -> << "colormap_cloud_coverage", "percent_clear_night_samples_all_months" >>
      [] OTHER
           -> << "colormap_cloudy", "brightness_mag_arcsec2" >>

\* the certified sites among the sites of this model
DSC_SITES == {"SiteA"}
\* `> 21.2`: the whole numbers above 21.2 are those above 21
QualifiedAbove == 21

YesNo(b) == IF b THEN Some("YES") ELSE Some("NO")

\* lines 219-239
DarkSkyStatus(df) ==
    IF "median_brightness_mag_arcsec2" \notin df.columns
    THEN Raise("KeyError")
    ELSE Return(DataFrame(df.columns \cup {"DarkSkyCertified", "DarkSkyQualified"},
           [ i \in DOMAIN df.rows |->
               [df.rows[i] EXCEPT
                  !.DarkSkyCertified =
                      YesNo(df.rows[i].site_name # None
                            /\ Val(df.rows[i].site_name) \in DSC_SITES),
                  !.DarkSkyQualified =
                      YesNo(df.rows[i].value # None
                            /\ Val(df.rows[i].value) > QualifiedAbove)] ]))

load_processed_data(files, data_key, bar_chart_col) ==
    LET raw == load_raw_data(files)
    IN  IF Raised(raw) THEN raw
        ELSE IF data_key \notin FileKeys THEN Raise("KeyError")
        ELSE
        LET raw_dfs == Returned(raw)
            merged == merge(raw_dfs[data_key], raw_dfs["geocode"])
        IN  IF Raised(merged) THEN merged
            ELSE
            LET config == colormap_config(data_key)
                colored == _add_color_map_column(Returned(merged), raw_dfs[config[1]],
                                                 value_col(bar_chart_col), config[2])
            IN  IF Raised(colored) THEN colored
                ELSE IF data_key = "clear_measurements"
                THEN DarkSkyStatus(Returned(colored))
                ELSE colored

----------------------------------------------------------------------------
(* Data pipeline: ranking.                                                 *)

\* variant of dropna: only the rows without a metric value are dropped
dropna_MetricOnly(rows) ==
    SelectSeq(rows, LAMBDA r : r.value # None)

\* dropna(subset=[y_col, 'site_name'])
dropna(rows) ==
    SelectSeq(rows, LAMBDA r : r.value # None /\ r.site_name # None)

\* variant of sort_values: the rows are sorted upwards whatever the flag
sort_values_Upwards(rows, ascending) ==
    { [ i \in DOMAIN rows |-> rows[p[i]] ] :
        p \in { q \in Permutations(DOMAIN rows) :
                  \A i, j \in DOMAIN rows :
                     i < j => Val(rows[q[i]].value) <= Val(rows[q[j]].value) } }

\* sort_values(y_col, ascending): the default sort is quicksort, which is
\* not stable, so rows with equal values may come out in any order
sort_values(rows, ascending) ==
    { [ i \in DOMAIN rows |-> rows[p[i]] ] :
        p \in { q \in Permutations(DOMAIN rows) :
                  \A i, j \in DOMAIN rows :
                     i < j => IF ascending
                              THEN Val(rows[q[i]].value) <= Val(rows[q[j]].value)
                              ELSE Val(rows[q[i]].value) >= Val(rows[q[j]].value) } }

\* visualizations.py lines 50-56: the outcomes the call may have
_prepare_chart_data(sites_df, y_col) ==
    IF ~ ({y_col, "site_name"} \subseteq sites_df.columns)
    THEN { Raise("KeyError") }
    ELSE LET ascending == (y_col = "median_brightness_mag_arcsec2")
         IN  { Return(DataFrame(sites_df.columns, sorted)) :
                 sorted \in sort_values(dropna(sites_df.rows), ascending) }

\* flask_api/app.py lines 154-161
metric_mapping(metric, night_type) ==
    CASE metric = "brightness" ->
           IF night_type = "clear" THEN "median_brightness_mag_arcsec2"
           ELSE "cloudy_median_brightness"
      [] metric = "bortle" -> "bortle_scale"
      [] metric = "pollution_ratio" -> "x_brighter_than_darkest"
      [] metric = "annual_change" -> "annual_percent_change"
      [] OTHER -> "median_brightness_mag_arcsec2"

\* DataFrame.head(limit)
head(rows, limit) ==
    IF Len(rows) <= limit THEN rows ELSE SubSeq(rows, 1, limit)

\* flask_api/app.py lines 145-175: the rows of the ranking chart, or the
\* error answer when the frame lacks the column
get_ranking_data(sites_df, night_type, metric, sort_order, limit) ==
    LET y_col == metric_mapping(metric, night_type)
    IN  IF y_col \notin sites_df.columns
        THEN { Return([error |-> Some("Column not found"), rows |-> << >>]) }
        ELSE IF "site_name" \notin sites_df.columns
        THEN { Raise("KeyError") }
        ELSE LET ascending == (sort_order = "asc")
             IN  { Return([error |-> None, rows |-> head(sorted, limit)]) :
                     sorted \in sort_values(dropna(sites_df.rows), ascending) }

----------------------------------------------------------------------------
(* Configuration: configs.py.                                              *)

\* meas_type_dict: the entries the pipeline reads
meas_type_dict(meas) ==
    CASE meas = "clear_nights_brightness" ->
           [ data_key |-> "clear_measurements",
             bar_chart_y_col |-> "x_brighter_than_darkest_night_sky",
             scatter_plot |-> TRUE ]
      [] meas = "cloudy_nights_brightness" ->
           [ data_key |-> "cloudy_measurements",
             bar_chart_y_col |-> "x_brighter_than_darkest_night_sky",
             scatter_plot |-> TRUE ]
      [] meas = "long_term_trends" ->
           [ data_key |-> "trends",
             bar_chart_y_col |-> "Rate_of_Change_vs_Prineville_Reservoir_State_Park",
             scatter_plot |-> FALSE ]
      [] meas = "milky_way_visibility" ->
           [ data_key |-> "milky_way",
             bar_chart_y_col |-> "ratio_index",
             scatter_plot |-> FALSE ]
      [] meas = "% clear nights" ->
           [ data_key |-> "cloud_coverage",
             bar_chart_y_col |-> "percent_clear_night_samples_all_months",
             scatter_plot |-> FALSE ]

\* variant of get_meas_type_config: an unknown key gets the first question's
\* configuration
get_meas_type_config_Fallback(meas) ==
    IF meas \notin MeasTypeKeys
    THEN Return(meas_type_dict("clear_nights_brightness"))
    ELSE Return(meas_type_dict(meas))

\* configs.py lines 102-116
get_meas_type_config(meas) ==
    IF meas \notin MeasTypeKeys
    THEN Raise("ValueError")
    ELSE Return(meas_type_dict(meas))

----------------------------------------------------------------------------
(* Data pipeline: the files of the raw directory in this model.            *)

SiteOrder == << "SiteA", "SiteB", "SiteC" >>

\* sites_coordinates_2026.csv with the given sites
GeocodeColumns == {"site_name", "latitude", "longitude"}
GeocodeFrame(sites) ==
    DataFrame(GeocodeColumns,
              [ i \in DOMAIN SelectSeq(SiteOrder, LAMBDA n : n \in sites) |->
                  LET name == SelectSeq(SiteOrder, LAMBDA n : n \in sites)[i]
                  IN  [ site_name |-> Some(name),
                        latitude |-> Some(Geocode(name)[1]),
                        longitude |-> Some(Geocode(name)[2]) ] ])

\* the columns of the measurement file of a data key
MeasurementColumns(data_key) ==
    CASE data_key \in {"clear_measurements", "cloudy_measurements"} ->
           {"site_name", "median_brightness_mag_arcsec2",
            "x_brighter_than_darkest_night_sky"}
      [] data_key = "trends" ->
           {"site_name", "Rate_of_Change_vs_Prineville_Reservoir_State_Park"}
      [] data_key = "milky_way" -> {"site_name", "ratio_index"}
      [] data_key = "cloud_coverage" ->
           {"site_name", "percent_clear_night_samples_all_months"}

\* the colormap files: bin boundaries 10, 20, 30
BinColors == [b \in {10, 20, 30} |->
                 CASE b = 10 -> "red" [] b = 20 -> "yellow" [] OTHER -> "green"]
ColormapRows(bins) ==
    [ i \in DOMAIN SelectSeq(<<10, 20, 30>>, LAMBDA b : b \in bins) |->
        LET bin == SelectSeq(<<10, 20, 30>>, LAMBDA b : b \in bins)[i]
        IN  ColormapRow(bin, BinColors[bin]) ]
ColormapFrame(colormap_bin_col, bins) ==
    DataFrame(ColormapColumns(colormap_bin_col), ColormapRows(bins))

\* the columns a file has (its header line)
FileColumns(key) ==
    CASE key \in DataKeys -> MeasurementColumns(key)
      [] key = "geocode" -> GeocodeColumns
      [] key = "sites" -> {"site_name"}
      [] key = "colormap_clear" -> ColormapColumns("brightness_mag_arcsec2")
      [] key = "colormap_cloudy" -> ColormapColumns("brightness_mag_arcsec2")
      [] key = "colormap_trends" ->
           ColormapColumns("Rate_of_Change_vs_Prineville_Reservoir_State_Park")
      [] key = "colormap_milky_way" -> ColormapColumns("ratio_index")
      [] key = "colormap_cloud_coverage" ->
           ColormapColumns("percent_clear_night_samples_all_months")

\* the measurement rows the files hold in this model
MeasurementRowSets ==
    { << Row(Some("SiteA"), Some(25)), Row(Some("SiteB"), Some(15)),
         Row(Some("SiteC"), Some(35)) >>,
      << Row(Some("SiteB"), Some(10)), Row(Some("SiteA"), None) >>,
      << Row(Some("SiteC"), Some(30)) >> }

\* the sites the coordinates file knows in this model
GeocodeSiteSets == { {"SiteA", "SiteB", "SiteC"}, {"SiteA", "SiteC"}, {"SiteB"} }

\* a raw directory with every file present
Files(geocode_sites, measurement_rows) ==
    [ key \in FileKeys |->
        CASE key \in DataKeys ->
               CsvFile(DataFrame(MeasurementColumns(key), measurement_rows))
          [] key = "geocode" -> CsvFile(GeocodeFrame(geocode_sites))
          [] key = "sites" -> CsvFile(DataFrame({"site_name"}, << >>))
          [] OTHER -> CsvFile(DataFrame(FileColumns(key),
                                        ColormapRows({10, 20, 30}))) ]

BaseFiles == Files({"SiteA", "SiteB", "SiteC"},
                   << Row(Some("SiteA"), Some(25)), Row(Some("SiteB"), Some(15)),
                      Row(Some("SiteC"), Some(35)) >>)

\* the raw directories of this model: complete ones, ones where a file
\* is missing, has no byte, or has a header line and no row, and ones where
\* the bin table of one category stops at 20
RawFileStates ==
    { Files(g, m) : g \in GeocodeSiteSets, m \in MeasurementRowSets }
    \cup { [BaseFiles EXCEPT ![key] = f] :
             key \in FileKeys, f \in {MissingFile, ZeroByteFile} }
    \cup { [BaseFiles EXCEPT ![key] = CsvFile(DataFrame(FileColumns(key), << >>))] :
             key \in FileKeys }
    \cup { [BaseFiles EXCEPT ![colormap_config(key)[1]] =
               CsvFile(DataFrame(FileColumns(colormap_config(key)[1]),
                                 ColormapRows({10, 20})))] :
             key \in DataKeys }

----------------------------------------------------------------------------
(* State.                                                                  *)

VARIABLES
    app,                       \* which front-end this session runs: "dash" or "streamlit"
    \* Dash: stores and component properties
    map_zoom_store,            \* dcc.Store 'map-zoom-store'
    map_center_store,          \* dcc.Store 'map-center-store'
    max_zoom_violation_store,  \* dcc.Store 'max-zoom-violation-store'
    clicked_sites_store,       \* dcc.Store 'clicked-sites-store'
    map_clickData,             \* oregon-map.clickData
    bar_clickData,             \* bar-chart.clickData
    scatter_clickData,         \* scatter-plot.clickData
    relayoutData,              \* oregon-map.relayoutData
    meas_type,                 \* meas-type-radio.value
    figure,                    \* what update_dashboard rendered last (None before the first render)
    \* Dash: invocations the renderer owes each callback
    pend_zoom,                 \* trigger update_zoom_and_center is to run with, or Idle
    pend_click,                \* trigger update_clicked_sites is to run with, or Idle
    pend_dash,                 \* changed inputs update_dashboard is to run with
    event,                     \* the user event being served: its kind, the site
                               \* names it carries, and the stores as they were
                               \* when it arrived
    \* Streamlit: the session and the script
    session_state,             \* st.session_state: map_zoom, map_center, clicked_sites
    st_meas_type,              \* value of the sidebar radio
    st_button,                 \* the Refresh button was clicked for this run
    map_data,                  \* value of the st_folium component
    st_pc,                     \* where the script main() is
    st_view,                   \* what the last run drew (None before the first run)
    st_run,                    \* the user event being served, the session as it
                               \* was at the event, and the reruns since
    \* the data pipeline
    call                       \* the last call made: function, arguments, outcome

dash_vars ==
    << map_zoom_store, map_center_store, max_zoom_violation_store,
       clicked_sites_store, map_clickData, bar_clickData, scatter_clickData,
       relayoutData, meas_type, figure, pend_zoom, pend_click, pend_dash >>

st_vars ==
    << session_state, st_meas_type, st_button, map_data, st_pc, st_view, st_run >>

fn_vars == << call >>

vars == << app, dash_vars, event, st_vars, fn_vars >>

\* a user event: what was done, the click payload it put on a view (None
\* for the other events), and the stores at that moment
Event(kind, payload) ==
    [kind |-> kind, payload |-> payload,
     zoom |-> map_zoom_store, center |-> map_center_store,
     clicked |-> clicked_sites_store]

DashInit ==
    /\ map_zoom_store = InitialZoomStore
    /\ map_center_store = InitialCenterStore
    /\ max_zoom_violation_store = FALSE
    /\ clicked_sites_store = None
    /\ map_clickData = None
    /\ bar_clickData = None
    /\ scatter_clickData = None
    /\ relayoutData = None
    /\ meas_type = "clear_nights_brightness"
    /\ figure = None
    \* on page load every callback is invoked once with an empty ctx.triggered
    /\ pend_zoom = NoTrigger
    /\ pend_click = NoTrigger
    /\ pend_dash = {NoTrigger}
    /\ event = Event("load", None)

----------------------------------------------------------------------------
(* Streamlit: values.                                                      *)

\* `st.session_state["map_zoom"] = 6  # default zoom`
StDefaultZoom == 6
\* a center is kept as the list [lat, lon] or as the dict {"lat", "lng"}
\* st_folium returns
ListCenter(lat, lon) == [form |-> "list", lat |-> lat, lon |-> lon]
DictCenter(lat, lon) == [form |-> "dict", lat |-> lat, lon |-> lon]
\* `st.session_state["map_center"] = [44.0, -121.0]  # default center`
StDefaultCenter == ListCenter(44, -121)

\* st.session_state with no key set
EmptySession ==
    [map_zoom |-> KeyAbsent, map_center |-> KeyAbsent, clicked_sites |-> KeyAbsent]

\* the value st_folium returns for a component that has reported nothing
DefaultMapData ==
    [zoom |-> KeyAbsent, center |-> KeyAbsent, last_object_clicked |-> None]

\* |a - b|
Abs(x) == IF x < 0 THEN -x ELSE x
\* 1e-4 degree, in the unit of the coordinates
Tolerance == 1

\* site names of the rows of final_data_df within the tolerance of a clicked
\* point: `site_row["site_name"].values`
SiteRow(meas, lat, lng) ==
    { s \in RowsOf(meas) : /\ Abs(Geocode(s)[1] - lat) < Tolerance
                           /\ Abs(Geocode(s)[2] - lng) < Tolerance }

\* locations of the markers drawn for a category
MarkerLocations(meas) == { Geocode(s) : s \in RowsOf(meas) }

StInitial ==
    /\ session_state = EmptySession
    /\ st_meas_type = "clear_nights_brightness"
    /\ st_button = FALSE
    /\ map_data = DefaultMapData
    /\ st_pc = "start"
    /\ st_view = None
    /\ st_run = [trigger |-> "load", payload |-> None, before |-> EmptySession, reruns |-> 0]

\* no call of the data pipeline has been made
NoCall == [fn |-> "", args |-> << >>, out |-> None]

Init ==
    /\ app \in {"dash", "streamlit"}
    /\ DashInit
    /\ StInitial
    /\ call = NoCall

----------------------------------------------------------------------------
(* Dash: user events.  An event changes a component property and makes     *)
(* the renderer owe an invocation to every callback that has the property  *)
(* as an Input.  The browser takes the next event once the callbacks of    *)
(* the previous one have answered; only a click may come earlier, while    *)
(* update_dashboard (which loads the data and draws the figures) is still  *)
(* outstanding, and then lands on the figures drawn before.                *)

StoresSettled == pend_zoom = Idle /\ pend_click = Idle
Settled == StoresSettled /\ pend_dash = {}

\* pan or zoom of the map: oregon-map.relayoutData changes
UserRelayout(p) ==
    /\ app = "dash" /\ Settled
    /\ relayoutData # Some(p)
    /\ relayoutData' = Some(p)
    /\ pend_zoom' = "oregon-map"
    /\ event' = Event("relayout", None)
    /\ UNCHANGED << st_vars, fn_vars >>
    /\ UNCHANGED << app, map_zoom_store, map_center_store, max_zoom_violation_store,
                    clicked_sites_store, map_clickData, bar_clickData,
                    scatter_clickData, meas_type, figure, pend_click, pend_dash >>

\* click on the Refresh button: refresh-btn.n_clicks changes
UserRefresh ==
    /\ app = "dash" /\ Settled
    /\ pend_zoom' = "refresh-btn"
    /\ pend_click' = "refresh-btn"
    /\ pend_dash' = pend_dash \cup {"refresh-btn"}
    /\ event' = Event("refresh", None)
    /\ UNCHANGED << st_vars, fn_vars >>
    /\ UNCHANGED << app, map_zoom_store, map_center_store, max_zoom_violation_store,
                    clicked_sites_store, map_clickData, bar_clickData,
                    scatter_clickData, relayoutData, meas_type, figure >>

\* click on a marker of the drawn map
UserMapClick(names) ==
    /\ app = "dash" /\ StoresSettled
    /\ figure # None /\ names \in MarkerSites(Val(figure).meas)
    /\ map_clickData' = Some(names)
    /\ pend_click' = "oregon-map"
    /\ event' = Event("map_click", Some(names))
    /\ UNCHANGED << st_vars, fn_vars >>
    /\ UNCHANGED << app, map_zoom_store, map_center_store, max_zoom_violation_store,
                    clicked_sites_store, bar_clickData, scatter_clickData,
                    relayoutData, meas_type, figure, pend_zoom, pend_dash >>

\* click on a bar of the drawn ranking chart
UserBarClick(site) ==
    /\ app = "dash" /\ StoresSettled
    /\ figure # None /\ site \in RowsOf(Val(figure).meas)
    /\ bar_clickData' = Some(site)
    /\ pend_click' = "bar-chart"
    /\ event' = Event("bar_click", Some({site}))
    /\ UNCHANGED << st_vars, fn_vars >>
    /\ UNCHANGED << app, map_zoom_store, map_center_store, max_zoom_violation_store,
                    clicked_sites_store, map_clickData, scatter_clickData,
                    relayoutData, meas_type, figure, pend_zoom, pend_dash >>

\* click on a point of the drawn scatter plot
UserScatterClick(site) ==
    /\ app = "dash" /\ StoresSettled
    /\ figure # None /\ HasScatter(Val(figure).meas)
    /\ site \in RowsOf(Val(figure).meas)
    /\ scatter_clickData' = Some(site)
    /\ pend_click' = "scatter-plot"
    /\ event' = Event("scatter_click", Some({site}))
    /\ UNCHANGED << st_vars, fn_vars >>
    /\ UNCHANGED << app, map_zoom_store, map_center_store, max_zoom_violation_store,
                    clicked_sites_store, map_clickData, bar_clickData,
                    relayoutData, meas_type, figure, pend_zoom, pend_dash >>

\* another question is selected: meas-type-radio.value changes
UserCategory(k) ==
    /\ app = "dash" /\ Settled
    /\ k # meas_type
    /\ meas_type' = k
    /\ pend_dash' = pend_dash \cup {"meas-type-radio"}
    /\ event' = Event("category", None)
    /\ UNCHANGED << st_vars, fn_vars >>
    /\ UNCHANGED << app, map_zoom_store, map_center_store, max_zoom_violation_store,
                    clicked_sites_store, map_clickData, bar_clickData,
                    scatter_clickData, relayoutData, figure, pend_zoom, pend_click >>

----------------------------------------------------------------------------
(* Dash: one invocation of each callback.                                  *)

\* variant of the invocation: the selection is dropped with every viewport update
RunUpdateZoomAndCenter_DropsSelection ==
    /\ app = "dash" /\ pend_zoom # Idle
    /\ LET out == update_zoom_and_center(pend_zoom, relayoutData,
                                         map_zoom_store, map_center_store)
       IN  /\ map_zoom_store' = out.zoom
           /\ map_center_store' = out.center
           /\ max_zoom_violation_store' = out.violation
    /\ clicked_sites_store' = None
    /\ pend_zoom' = Idle
    /\ pend_dash' = pend_dash \cup {"max-zoom-violation-store"}
    /\ UNCHANGED << st_vars, event, fn_vars >>
    /\ UNCHANGED << app, map_clickData, bar_clickData,
                    scatter_clickData, relayoutData, meas_type, figure, pend_click >>

RunUpdateZoomAndCenter ==
    /\ app = "dash" /\ pend_zoom # Idle
    /\ LET out == update_zoom_and_center(pend_zoom, relayoutData,
                                         map_zoom_store, map_center_store)
       IN  /\ map_zoom_store' = out.zoom
           /\ map_center_store' = out.center
           /\ max_zoom_violation_store' = out.violation
    /\ pend_zoom' = Idle
    \* max-zoom-violation-store is an Input of update_dashboard
    /\ pend_dash' = pend_dash \cup {"max-zoom-violation-store"}
    /\ UNCHANGED << st_vars, event, fn_vars >>
    /\ UNCHANGED << app, clicked_sites_store, map_clickData, bar_clickData,
                    scatter_clickData, relayoutData, meas_type, figure, pend_click >>

\* the site names carried by the clickData property a trigger names
\* (None when the property is empty or the trigger is no click)
ClickPayload(trig) ==
    CASE trig = "oregon-map" /\ map_clickData # None       -> map_clickData
      [] trig = "bar-chart" /\ bar_clickData # None        -> Some({Val(bar_clickData)})
      [] trig = "scatter-plot" /\ scatter_clickData # None -> Some({Val(scatter_clickData)})
      [] OTHER                                             -> None

RunUpdateClickedSites ==
    /\ app = "dash" /\ pend_click # Idle
    /\ LET out == update_clicked_sites(pend_click, map_clickData, bar_clickData,
                                       scatter_clickData, clicked_sites_store)
       IN  /\ clicked_sites_store' = out.clicked
           /\ map_clickData' = out.map
           /\ bar_clickData' = out.bar
           /\ scatter_clickData' = out.scatter
    \* the callback writes its own Inputs: when it has emptied the payload it
    \* was triggered by, the renderer may invoke it once more for that change
    /\ \/ pend_click' = Idle
       \/ ClickPayload(pend_click) # None /\ pend_click' = pend_click
    \* clicked-sites-store is an Input of update_dashboard
    /\ pend_dash' = pend_dash \cup {"clicked-sites-store"}
    /\ UNCHANGED << st_vars, event, fn_vars >>
    /\ UNCHANGED << app, map_zoom_store, map_center_store, max_zoom_violation_store,
                    relayoutData, meas_type, figure, pend_zoom >>

\* one invocation for all the changed inputs; ctx.triggered[0] is any of them
RunUpdateDashboard ==
    /\ app = "dash" /\ pend_dash # {}
    /\ \E trig \in pend_dash :
         figure' = Some(update_dashboard(trig, meas_type, map_zoom_store,
                                         map_center_store, clicked_sites_store))
    /\ pend_dash' = {}
    /\ UNCHANGED << st_vars, event, fn_vars >>
    /\ UNCHANGED << app, map_zoom_store, map_center_store, max_zoom_violation_store,
                    clicked_sites_store, map_clickData, bar_clickData,
                    scatter_clickData, relayoutData, meas_type, pend_zoom,
                    pend_click >>

----------------------------------------------------------------------------
(* Streamlit: main() runs from the top on every user event and on every    *)
(* st.rerun().  A run is split where the session can be observed:          *)
(* after the session keys are initialised, after the sidebar (where the    *)
(* Refresh button clears the session and reruns), and after the body.      *)

\* lines 119-127: set the keys that are not in the session
InitSessionState(ss) ==
    [ map_zoom      |-> IF HasKey(ss.map_zoom) THEN ss.map_zoom ELSE KeyVal(StDefaultZoom),
      map_center    |-> IF HasKey(ss.map_center) THEN ss.map_center ELSE KeyVal(StDefaultCenter),
      clicked_sites |-> IF HasKey(ss.clicked_sites) THEN ss.clicked_sites ELSE KeyNone ]

\* st.session_state.clear()
ClearSessionState(ss) == EmptySession

\* lines 237-241: take over the zoom and the center the component reports
TakeViewport(ss, md) ==
    [ss EXCEPT !.map_zoom = IF HasKey(md.zoom) THEN md.zoom ELSE @,
               !.map_center = IF HasKey(md.center) THEN md.center ELSE @]

\* variant of SameSelection: the stored selection is never taken as equal
SameSelection_Never(clicked_sites, new_clicked) == FALSE

\* lines 258-262: the stored selection is an array equal to new_clicked
SameSelection(clicked_sites, new_clicked) ==
    clicked_sites # KeyNone /\ KeyValue(clicked_sites) = new_clicked

\* lines 243-264: the selection after the click handling, and whether
\* st.rerun() is called
ClickHandling(ss, md, meas) ==
    IF Truthy(md.last_object_clicked)
    THEN LET clicked_obj == Val(md.last_object_clicked)
             new_clicked == SiteRow(meas, clicked_obj[1], clicked_obj[2])
         IN  IF new_clicked # {} /\ ~SameSelection(ss.clicked_sites, new_clicked)
             THEN [ss |-> [ss EXCEPT !.clicked_sites = KeyVal(new_clicked)], rerun |-> TRUE]
             ELSE [ss |-> ss, rerun |-> FALSE]
    ELSE [ss |-> ss, rerun |-> FALSE]

\* lines 211-218: the center handed to the map
CenterList(c) == ListCenter(c.lat, c.lon)

\* what a run draws: the map from the session as it is before st_folium
\* answers, the site details and the charts from the selection at the end
StView(meas, ss_map, ss_end) ==
    [ meas |-> meas,
      zoom |-> KeyValue(ss_map.map_zoom),
      center |-> CenterList(KeyValue(ss_map.map_center)),
      map_highlight |-> Val(ss_map.clicked_sites),
      chart_highlight |-> Val(ss_end.clicked_sites) ]

StIdle == app = "streamlit" /\ st_pc = "idle"

StartRun(trigger, payload) ==
    /\ st_pc' = "start"
    /\ st_run' = [trigger |-> trigger, payload |-> payload,
                  before |-> session_state, reruns |-> 0]

\* the Refresh button of the sidebar is clicked
StUserRefresh ==
    /\ UNCHANGED << app, dash_vars, event, fn_vars >>
    /\ StIdle
    /\ st_button' = TRUE
    /\ StartRun("refresh", None)
    /\ UNCHANGED << session_state, st_meas_type, map_data, st_view >>

\* another question is selected in the sidebar
StUserCategory(k) ==
    /\ UNCHANGED << app, dash_vars, event, fn_vars >>
    /\ StIdle
    /\ k # st_meas_type
    /\ st_meas_type' = k
    /\ StartRun("category", None)
    /\ UNCHANGED << session_state, st_button, map_data, st_view >>

\* the map is panned or zoomed: the component reports a zoom and a center
StUserViewport(z, c) ==
    /\ UNCHANGED << app, dash_vars, event, fn_vars >>
    /\ StIdle
    /\ << map_data.zoom, map_data.center >> # << KeyVal(z), KeyVal(c) >>
    /\ map_data' = [map_data EXCEPT !.zoom = KeyVal(z), !.center = KeyVal(c)]
    /\ StartRun("viewport", None)
    /\ UNCHANGED << session_state, st_meas_type, st_button, st_view >>

\* a marker of the drawn map is clicked: the component reports its location
StUserMapClick(loc) ==
    /\ UNCHANGED << app, dash_vars, event, fn_vars >>
    /\ StIdle
    /\ st_view # None /\ loc \in MarkerLocations(Val(st_view).meas)
    /\ map_data.last_object_clicked # Some(loc)
    /\ map_data' = [map_data EXCEPT !.last_object_clicked = Some(loc)]
    /\ StartRun("click", Some(loc))
    /\ UNCHANGED << session_state, st_meas_type, st_button, st_view >>

\* lines 119-127
StInitSession ==
    /\ UNCHANGED << app, dash_vars, event, fn_vars >>
    /\ app = "streamlit" /\ st_pc = "start"
    /\ session_state' = InitSessionState(session_state)
    /\ st_pc' = "sidebar"
    /\ UNCHANGED << st_meas_type, st_button, map_data, st_view, st_run >>

\* lines 170-185
StSidebar ==
    /\ UNCHANGED << app, dash_vars, event, fn_vars >>
    /\ app = "streamlit" /\ st_pc = "sidebar"
    /\ IF st_button
       THEN /\ session_state' = ClearSessionState(session_state)
            /\ st_button' = FALSE
            /\ st_pc' = "start"
            /\ st_run' = [st_run EXCEPT !.reruns = @ + 1]
       ELSE /\ st_pc' = "body"
            /\ UNCHANGED << session_state, st_button, st_run >>
    /\ UNCHANGED << st_meas_type, map_data, st_view >>

\* the values st_folium may answer with (lines 229-235): the run started by
\* the component itself receives what the component reported; any other run
\* receives that value again, or the default value when the component was
\* created anew
FoliumAnswers ==
    IF st_run.reruns = 0 /\ st_run.trigger \in {"click", "viewport"}
    THEN {map_data}
    ELSE {map_data, DefaultMapData}

\* lines 187-342
StBody ==
    /\ UNCHANGED << app, dash_vars, event, fn_vars >>
    /\ app = "streamlit" /\ st_pc = "body"
    /\ \E md \in FoliumAnswers :
         LET viewed == TakeViewport(session_state, md)
             handled == ClickHandling(viewed, md, st_meas_type)
         IN  /\ map_data' = md
             /\ session_state' = handled.ss
             /\ IF handled.rerun
                THEN /\ st_pc' = "start"
                     /\ st_run' = [st_run EXCEPT !.reruns = @ + 1]
                     /\ st_view' = st_view
                ELSE /\ st_pc' = "idle"
                     /\ st_view' = Some(StView(st_meas_type, session_state, handled.ss))
                     /\ UNCHANGED st_run
    /\ UNCHANGED << st_meas_type, st_button >>

\* zoom levels and centers the folium map may report
StZooms == {6, 8, 15}
StCenters == {DictCenter(44, -121), DictCenter(45, -120)}

----------------------------------------------------------------------------
(* The data pipeline and the reducers as functions: one call per           *)
(* behaviour, on a raw directory and on store values drawn at the start.   *)

\* the values update_dashboard renders with, as callbacks left them
StoreStates ==
    { [zoom |-> InitialZoomStore, center |-> InitialCenterStore, clicked |-> None],
      [zoom |-> 8, center |-> PannedCenter, clicked |-> Some({"SiteA", "SiteB"})] }

FnInit ==
    /\ app = "pipeline"
    /\ \E st \in StoreStates :
         /\ map_zoom_store = st.zoom
         /\ map_center_store = st.center
         /\ clicked_sites_store = st.clicked
    /\ max_zoom_violation_store = FALSE
    /\ map_clickData = None /\ bar_clickData = None /\ scatter_clickData = None
    /\ relayoutData = None
    /\ meas_type = "clear_nights_brightness"
    /\ figure = None
    /\ pend_zoom = Idle /\ pend_click = Idle /\ pend_dash = {}
    /\ event = Event("load", None)
    /\ StInitial
    /\ call = NoCall

Called(fn, args, out) == [fn |-> fn, args |-> args, out |-> out]

\* the values and bin tables _add_color_map_column is tried on
BinValues == {5, 10, 15, 20, 25, 30, 35}
BinTables == { ColormapFrame("bin", bins) : bins \in SUBSET {10, 20, 30} }

CallAddColorMapColumn(value, colormap_df) ==
    /\ app = "pipeline" /\ call = NoCall
    /\ LET df == DataFrame({"site_name", "metric"}, << Row(Some("SiteA"), value) >>)
       IN  call' = Called("_add_color_map_column", << df, colormap_df >>,
                          _add_color_map_column(df, colormap_df, "metric", "bin"))
    /\ UNCHANGED << app, dash_vars, event, st_vars >>

\* `files` is what self.raw_dir holds when the processor is called
CallLoadRawData(files) ==
    /\ app = "pipeline" /\ call = NoCall
    /\ call' = Called("load_raw_data", << files >>, load_raw_data(files))
    /\ UNCHANGED << app, dash_vars, event, st_vars >>

\* load_processed_data as update_dashboard and main call it
CallLoadProcessedData(files, meas) ==
    /\ app = "pipeline" /\ call = NoCall
    /\ LET config == meas_type_dict(meas)
       IN  call' = Called("load_processed_data",
                          << files, config.data_key, config.bar_chart_y_col >>,
                          load_processed_data(files, config.data_key,
                                              config.bar_chart_y_col))
    /\ UNCHANGED << app, dash_vars, event, st_vars >>

\* the frames the ranking is tried on: up to three rows, with missing
\* metric values, missing site names and equal metric values
ChartRows ==
    { Row(Some(n), Some(v)) : n \in {"SiteA", "SiteB"}, v \in {1, 2} }
    \cup { Row(Some("SiteA"), None), Row(None, Some(1)) }
ChartFrames(columns) ==
    { DataFrame(columns, rows) :
        rows \in {<< >>} \cup { <<a>> : a \in ChartRows }
                 \cup { <<a, b>> : a, b \in ChartRows }
                 \cup { <<a, b, c>> : a, b, c \in ChartRows } }

CallPrepareChartData(sites_df, y_col) ==
    /\ app = "pipeline" /\ call = NoCall
    /\ \E out \in _prepare_chart_data(sites_df, y_col) :
         call' = Called("_prepare_chart_data", << sites_df, y_col >>, out)
    /\ UNCHANGED << app, dash_vars, event, st_vars >>

CallGetRankingData(sites_df, night_type, metric, sort_order, limit) ==
    /\ app = "pipeline" /\ call = NoCall
    /\ \E out \in get_ranking_data(sites_df, night_type, metric, sort_order, limit) :
         call' = Called("get_ranking_data",
                        << sites_df, night_type, metric, sort_order, limit >>, out)
    /\ UNCHANGED << app, dash_vars, event, st_vars >>

CallGetMeasTypeConfig(meas) ==
    /\ app = "pipeline" /\ call = NoCall
    /\ call' = Called("get_meas_type_config", << meas >>, get_meas_type_config(meas))
    /\ UNCHANGED << app, dash_vars, event, st_vars >>

\* dash_app/app.py lines 676-692 and on: the whole callback with its
\* configuration lookup and its load.  `loads` counts the calls of
\* load_processed_data; the figures are only drawn when both returned.
update_dashboard_call(files, trig, meas, map_zoom, map_center, clicked_sites) ==
    LET meas_type_configs == get_meas_type_config(meas)
    IN  IF Raised(meas_type_configs)
        THEN [out |-> Raise(Val(meas_type_configs.raised)), loads |-> 0]
        ELSE LET config == Val(meas_type_configs.value)
                 final_data_df == load_processed_data(files, config.data_key,
                                                      config.bar_chart_y_col)
             IN  IF Raised(final_data_df)
                 THEN [out |-> Raise(Val(final_data_df.raised)), loads |-> 1]
                 ELSE [out |-> Return(update_dashboard(trig, meas, map_zoom,
                                                       map_center, clicked_sites)),
                       loads |-> 1]

\* the question keys update_dashboard is invoked with: the enumerated ones
\* and one that is not in meas_type_dict
QuestionKeys == MeasTypeKeys \cup {"unknown_question"}

\* an invocation of update_dashboard; a callback that raises leaves the
\* figures it would have written as they are
CallUpdateDashboard(files, trig, meas) ==
    /\ app = "pipeline" /\ call = NoCall
    /\ LET r == update_dashboard_call(files, trig, meas, map_zoom_store,
                                      map_center_store, clicked_sites_store)
       IN  /\ call' = Called("update_dashboard", << files, trig, meas >>, r)
           /\ figure' = IF Raised(r.out) THEN figure ELSE r.out.value
    /\ UNCHANGED << app, map_zoom_store, map_center_store, max_zoom_violation_store,
                    clicked_sites_store, map_clickData, bar_clickData,
                    scatter_clickData, relayoutData, meas_type, pend_zoom,
                    pend_click, pend_dash >>
    /\ UNCHANGED << event, st_vars >>

\* the initial invocation of update_zoom_and_center: ctx.triggered is empty
CallUpdateZoomAndCenterNoTrigger(rd) ==
    /\ app = "pipeline" /\ call = NoCall
    /\ LET out == update_zoom_and_center(NoTrigger, rd, map_zoom_store,
                                         map_center_store)
       IN  /\ map_zoom_store' = out.zoom
           /\ map_center_store' = out.center
           /\ max_zoom_violation_store' = out.violation
           /\ call' = Called("update_zoom_and_center", << NoTrigger, rd >>, out)
    /\ UNCHANGED << app, clicked_sites_store, map_clickData, bar_clickData,
                    scatter_clickData, relayoutData, meas_type, figure, pend_zoom,
                    pend_click, pend_dash >>
    /\ UNCHANGED << event, st_vars >>

\* the initial invocation of update_clicked_sites: ctx.triggered is empty
CallUpdateClickedSitesNoTrigger(map_click, bar_click) ==
    /\ app = "pipeline" /\ call = NoCall
    /\ LET out == update_clicked_sites(NoTrigger, map_click, bar_click, None,
                                       clicked_sites_store)
       IN  /\ clicked_sites_store' = out.clicked
           /\ map_clickData' = out.map
           /\ bar_clickData' = out.bar
           /\ scatter_clickData' = out.scatter
           /\ call' = Called("update_clicked_sites",
                             << NoTrigger, map_click, bar_click >>, out)
    /\ UNCHANGED << app, map_zoom_store, map_center_store, max_zoom_violation_store,
                    relayoutData, meas_type, figure, pend_zoom, pend_click,
                    pend_dash >>
    /\ UNCHANGED << event, st_vars >>

\* Spatial aggregation (create_oregon_map_plotly): one marker per location,
\* with the names of the sites there, the colour of the member row with the
\* largest colour-metric value, and whether a member is highlighted.  `top`
\* is the largest value met so far at the location.
\* (a site name cell Some(n) is the set {n})
NewMarker(row, highlighted_sites) ==
    [ latitude |-> row.latitude, longitude |-> row.longitude,
      site_names |-> row.site_name,
      top |-> row.value,
      representative_color |-> row.color_rgba,
      highlighted |-> row.site_name \cap highlighted_sites # {} ]

\* variant of AddToMarker: the first row met at the location gives the colour
AddToMarker_FirstRow(marker, row, highlighted_sites) ==
    [ marker EXCEPT
        !.site_names = marker.site_names \cup row.site_name,
        !.highlighted = marker.highlighted
                        \/ row.site_name \cap highlighted_sites # {} ]

\* the marker of a location after one more row of that location
AddToMarker(marker, row, highlighted_sites) ==
    LET larger == /\ row.value # None
                  /\ (marker.top = None \/ Val(row.value) > Val(marker.top))
    IN  [ marker EXCEPT
            !.site_names = marker.site_names \cup row.site_name,
            !.top = IF larger THEN row.value ELSE marker.top,
            !.representative_color =
                IF larger THEN row.color_rgba ELSE marker.representative_color,
            !.highlighted = marker.highlighted
                            \/ row.site_name \cap highlighted_sites # {} ]

RECURSIVE GroupRows(_, _, _)
\* the rows taken one by one in their order; a row without coordinates
\* gives no marker
GroupRows(rows, markers, highlighted_sites) ==
    IF rows = << >> THEN markers
    ELSE LET row == Head(rows)
             here == { i \in DOMAIN markers :
                         /\ markers[i].latitude = row.latitude
                         /\ markers[i].longitude = row.longitude }
             next == IF row.latitude = None \/ row.longitude = None
                     THEN markers
                     ELSE IF here = {}
                     THEN Append(markers, NewMarker(row, highlighted_sites))
                     ELSE [ i \in DOMAIN markers |->
                              IF i \in here
                              THEN AddToMarker(markers[i], row, highlighted_sites)
                              ELSE markers[i] ]
         IN  GroupRows(Tail(rows), next, highlighted_sites)

\* the markers of the map: (lat, lon, site names, colour, highlighted)
aggregate_by_location(rows, highlighted_sites) ==
    LET markers == GroupRows(rows, << >>, highlighted_sites)
    IN  [ i \in DOMAIN markers |->
            [ latitude |-> markers[i].latitude,
              longitude |-> markers[i].longitude,
              site_names |-> markers[i].site_names,
              representative_color |-> markers[i].representative_color,
              highlighted |-> markers[i].highlighted ] ]

\* a row as load_processed_data returns it: with the coordinates of its
\* site, if it has any, and the colour of its value
ColoredRow(name, value, located) ==
    [ Row(Some(name), value) EXCEPT
        !.latitude = IF located THEN Some(Geocode(name)[1]) ELSE None,
        !.longitude = IF located THEN Some(Geocode(name)[2]) ELSE None,
        !.color_rgba = Some(Returned(color(value, ColormapFrame("bin", {10, 20, 30}),
                                           "bin"))) ]

\* the rows the aggregation is tried on: two sites at one location, a site
\* with two rows, a row without a value and a row without coordinates
MapRows ==
    { ColoredRow("SiteA", Some(25), TRUE), ColoredRow("SiteB", Some(15), TRUE),
      ColoredRow("SiteB", Some(5), TRUE), ColoredRow("SiteC", Some(30), TRUE),
      ColoredRow("SiteA", None, TRUE), ColoredRow("SiteC", Some(15), FALSE) }
MapFrames ==
    { rows \in {<< >>} \cup { <<a>> : a \in MapRows }
                \cup { <<a, b>> : a, b \in MapRows }
                \cup { <<a, b, c>> : a, b, c \in MapRows } :
        \A i, j \in DOMAIN rows : rows[i] = rows[j] => i = j }

\* highlight_sites is None or a list of site names
HighlightSet(highlight_sites) ==
    IF highlight_sites = None THEN {} ELSE Val(highlight_sites)

CallAggregateByLocation(rows, highlight_sites) ==
    /\ app = "pipeline" /\ call = NoCall
    /\ call' = Called("aggregate_by_location", << rows, highlight_sites >>,
                      Return(aggregate_by_location(rows, HighlightSet(highlight_sites))))
    /\ UNCHANGED << app, dash_vars, event, st_vars >>

\* the query parameters /api/ranking-data is tried with
RankingQueries ==
    { << "clear", "brightness", "desc" >>, << "clear", "brightness", "asc" >>,
      << "cloudy", "bortle", "desc" >>, << "clear", "unknown_metric", "asc" >> }

FnNext ==
    \/ \E value \in {Some(v) : v \in BinValues} \cup {None}, colormap_df \in BinTables :
         CallAddColorMapColumn(value, colormap_df)
    \/ \E files \in RawFileStates : CallLoadRawData(files)
    \/ \E files \in RawFileStates, meas \in MeasTypeKeys :
         CallLoadProcessedData(files, meas)
    \/ \E y_col \in {"ratio_index", "median_brightness_mag_arcsec2"} :
         \E sites_df \in ChartFrames({"site_name", y_col}) :
           CallPrepareChartData(sites_df, y_col)
    \/ \E q \in RankingQueries, limit \in {2, 20} :
         \E sites_df \in ChartFrames({"site_name", "median_brightness_mag_arcsec2"}) :
           CallGetRankingData(sites_df, q[1], q[2], q[3], limit)
    \/ \E meas \in QuestionKeys : CallGetMeasTypeConfig(meas)
    \/ \E rows \in MapFrames,
          highlight_sites \in {None, Some({"SiteB"}), Some({"SiteA", "SiteC"})} :
         CallAggregateByLocation(rows, highlight_sites)
    \/ \E files \in RawFileStates, meas \in QuestionKeys :
         \E trig \in {NoTrigger, "meas-type-table", "refresh-btn"} :
           CallUpdateDashboard(files, trig, meas)
    \/ \E rd \in {None} \cup {Some(p) : p \in RelayoutPayloads} :
         CallUpdateZoomAndCenterNoTrigger(rd)
    \/ \E map_click \in {None, Some({"SiteC"})}, bar_click \in {None, Some("SiteB")} :
         CallUpdateClickedSitesNoTrigger(map_click, bar_click)

FnSpec == FnInit /\ [][FnNext]_vars

----------------------------------------------------------------------------
Next ==
    \/ \E p \in RelayoutPayloads : UserRelayout(p)
    \/ UserRefresh
    \/ \E names \in SUBSET SiteNames : UserMapClick(names)
    \/ \E site \in SiteNames : UserBarClick(site)
    \/ \E site \in SiteNames : UserScatterClick(site)
    \/ \E k \in RadioChoices : UserCategory(k)
    \/ RunUpdateZoomAndCenter
    \/ RunUpdateClickedSites
    \/ RunUpdateDashboard
    \/ StUserRefresh
    \/ \E k \in RadioChoices : StUserCategory(k)
    \/ \E z \in StZooms, c \in StCenters : StUserViewport(z, c)
    \/ \E loc \in MarkerLocations("clear_nights_brightness") : StUserMapClick(loc)
    \/ StInitSession
    \/ StSidebar
    \/ StBody

Spec == Init /\ [][Next]_vars

----------------------------------------------------------------------------
(* Properties.                                                             *)

\* the highlight set held by a clicked-sites value
Highlighted(clicked) == IF clicked = None THEN {} ELSE Val(clicked)

ClickKinds == {"map_click", "bar_click", "scatter_click"}

\* the session right after lines 119-127 have run on an empty session
StDefaultSession ==
    [map_zoom |-> KeyVal(StDefaultZoom), map_center |-> KeyVal(StDefaultCenter),
     clicked_sites |-> KeyNone]

C1_WitnessStreamlit ==
    /\ app = "streamlit" /\ st_run.trigger = "refresh" /\ st_run.reruns = 1
    /\ st_pc = "sidebar"
    /\ st_run.before.clicked_sites # KeyNone
    /\ st_run.before.map_zoom # KeyVal(StDefaultZoom)

\* C2: after a click on the map, a bar or a scatter point has been handled,
\* the highlight set is exactly the site names of that click; no site of an
\* earlier click is left in it.
C2_LastClickReplaces ==
    (app = "dash" /\ event.kind \in ClickKinds /\ pend_click = Idle)
      => /\ Highlighted(clicked_sites_store) = Val(event.payload)
         /\ Highlighted(event.clicked) \ Val(event.payload)
              \subseteq SiteNames \ Highlighted(clicked_sites_store)

\* C2 witness: map_click([SiteA, SiteB]) followed by bar_click(SiteC)
C2_Witness ==
    /\ app = "dash" /\ event.kind = "bar_click" /\ pend_click = Idle
    /\ event.clicked = Some({"SiteA", "SiteB"})
    /\ event.payload = Some({"SiteC"})
    /\ clicked_sites_store = Some({"SiteC"})

\* C3: after a click on a map marker has been handled, the highlight set is
\* the full set of sites at the marker's location, and the map's click
\* payload is empty.
C3_MapClick ==
    /\ (app = "dash" /\ event.kind = "map_click" /\ pend_click = Idle)
         => /\ Highlighted(clicked_sites_store) = Val(event.payload)
            /\ map_clickData = None
    /\ (app = "streamlit" /\ st_run.trigger = "click" /\ st_pc = "idle")
         => /\ session_state.clicked_sites
                 = KeyVal(SiteRow(st_meas_type, Val(st_run.payload)[1],
                                  Val(st_run.payload)[2]))
            /\ map_data.last_object_clicked = None

\* C4: after a click on a bar (a scatter point) has been handled, the
\* highlight set is the singleton of the clicked site and the clickData of
\* the bar chart (the scatter plot) is empty.
C4_BarScatterClick ==
    /\ (app = "dash" /\ event.kind = "bar_click" /\ pend_click = Idle)
         => /\ \E site \in SiteNames :
                  /\ event.payload = Some({site})
                  /\ Highlighted(clicked_sites_store) = {site}
            /\ bar_clickData = None
    /\ (app = "dash" /\ event.kind = "scatter_click" /\ pend_click = Idle)
         => /\ \E site \in SiteNames :
                  /\ event.payload = Some({site})
                  /\ Highlighted(clicked_sites_store) = {site}
            /\ scatter_clickData = None

\* C4 witness: a scatter click handled while two sites were highlighted
C4_Witness ==
    /\ app = "dash" /\ event.kind = "scatter_click" /\ pend_click = Idle
    /\ event.clicked = Some({"SiteA", "SiteB"})
    /\ clicked_sites_store = Some({"SiteB"})
    /\ scatter_clickData = None

\* C5: a change of the category leaves the highlight set, the zoom and the
\* center as they were, and the render that follows draws with these values.
C5_CategoryKeepsView ==
    /\ (app = "dash" /\ event.kind = "category")
         => /\ clicked_sites_store = event.clicked
            /\ map_zoom_store = event.zoom
            /\ map_center_store = event.center
            /\ pend_dash = {}
                 => figure = Some(Figure(meas_type, event.zoom, event.center,
                                         event.clicked))
    /\ (app = "streamlit" /\ st_run.trigger = "category")
         => /\ st_pc # "start" => session_state = st_run.before
            /\ st_pc = "idle"
                 => Val(st_view)
                      = StView(st_meas_type, st_run.before, st_run.before)

\* the payload of the viewport event being served carries a zoom level
CarriesZoom(rd) == HasValue(rd.mapbox_zoom) \/ HasValue(rd.map_zoom)
\* the payload of the viewport event being served carries a center
CarriesCenter(rd) ==
    \/ HasValue(rd.mapbox_center) \/ HasValue(rd.map_center)
    \/ (HasKey(rd.mapbox_center_lat) /\ HasKey(rd.mapbox_center_lon))

\* a viewport event with a zoom level has been handled by
\* update_zoom_and_center
ZoomEventHandled ==
    /\ app = "dash" /\ event.kind = "relayout" /\ pend_zoom = Idle
    /\ RelayoutTruthy(relayoutData) /\ CarriesZoom(Val(relayoutData))

\* C6: a viewport event asking for a zoom above 10 leaves a stored zoom of at
\* most 10 and raises the max-zoom flag; one asking for a zoom of at most 10
\* stores that zoom and leaves the flag down.
C6_ZoomClamp ==
    ZoomEventHandled
      => LET requested == RelayoutZoom(Val(relayoutData), event.zoom)
         IN  /\ requested > 10
                  => map_zoom_store <= 10 /\ max_zoom_violation_store = TRUE
             /\ requested <= 10
                  => map_zoom_store = requested
                     /\ max_zoom_violation_store = FALSE

\* C6 witness: a requested zoom of 15 was clamped to 10 with the flag raised
C6_Witness ==
    /\ ZoomEventHandled
    /\ RelayoutZoom(Val(relayoutData), event.zoom) = 15
    /\ event.zoom = 8
    /\ map_zoom_store = 10 /\ max_zoom_violation_store = TRUE

\* C6 witness: a requested zoom of exactly 10 was stored with the flag down
C6_WitnessAtLimit ==
    /\ ZoomEventHandled
    /\ RelayoutZoom(Val(relayoutData), event.zoom) = 10
    /\ event.zoom = 5
    /\ map_zoom_store = 10 /\ max_zoom_violation_store = FALSE

\* C7: a viewport event that asks for a zoom above 10 and carries a new center
\* has its zoom clamped, and its center is stored all the same.
C7_ClampKeepsNewCenter ==
    (ZoomEventHandled /\ CarriesCenter(Val(relayoutData))
       /\ RelayoutZoom(Val(relayoutData), event.zoom) > 10)
      => /\ map_zoom_store <= 10
         /\ map_center_store = RelayoutCenter(Val(relayoutData), event.center)

\* C8: panning or zooming the map leaves the highlight set as it was.
C8_ViewportKeepsHighlight ==
    /\ (app = "dash" /\ event.kind = "relayout")
         => clicked_sites_store = event.clicked
    /\ (app = "streamlit" /\ st_run.trigger = "viewport")
         => session_state.clicked_sites = st_run.before.clicked_sites

\* C8 witness: a viewport event changed the stored zoom and center while two
\* sites were highlighted
C8_Witness ==
    /\ app = "dash" /\ event.kind = "relayout" /\ pend_zoom = Idle
    /\ map_zoom_store # event.zoom /\ map_center_store # event.center
    /\ clicked_sites_store = Some({"SiteA", "SiteB"})

\* C8 witness (Streamlit): the run after a pan has taken the new zoom and
\* center while a site was selected
C8_WitnessStreamlit ==
    /\ app = "streamlit" /\ st_run.trigger = "viewport" /\ st_pc = "idle"
    /\ session_state.map_zoom # st_run.before.map_zoom
    /\ session_state.clicked_sites = KeyVal({"SiteC"})

\* C9: once a refresh has been handled the click payloads of the map, the bar
\* chart and the scatter plot are empty, so no click made before the refresh
\* is taken up again: the highlight set stays empty until the next click.
C9_RefreshScrubsClicks ==
    /\ (app = "dash" /\ event.kind = "refresh" /\ pend_click = Idle)
         => /\ map_clickData = None /\ bar_clickData = None
            /\ scatter_clickData = None
            /\ Highlighted(clicked_sites_store) = {}
    /\ (app = "streamlit" /\ st_run.trigger = "refresh" /\ st_pc = "idle")
         => /\ map_data.last_object_clicked = None
            /\ session_state.clicked_sites = KeyNone

\* C10: a click that names a site, or a location, for which the current
\* category has no row changes nothing: the highlight set stays as it was.
C10_UnknownSiteClickIsNoOp ==
    /\ (app = "dash" /\ event.kind \in ClickKinds /\ pend_click = Idle
          /\ Val(event.payload) \cap RowsOf(meas_type) = {})
         => clicked_sites_store = event.clicked
    /\ (app = "streamlit" /\ st_run.trigger \in {"click", "category", "viewport"}
          /\ st_pc = "idle" /\ Truthy(map_data.last_object_clicked)
          /\ SiteRow(st_meas_type, Val(map_data.last_object_clicked)[1],
                     Val(map_data.last_object_clicked)[2]) = {})
         => session_state.clicked_sites = st_run.before.clicked_sites

\* C11: at session start there is no highlight, the zoom is 6 and the center
\* is [44.0, -121.0]; and the zoom a refresh resets to is the zoom the
\* session started with.
C11_SessionStartDefaults ==
    /\ (app = "dash" /\ event.kind = "load")
         => /\ Highlighted(clicked_sites_store) = {}
            /\ map_zoom_store = 6
            /\ map_center_store = <<44, -121>>
    /\ (app = "streamlit" /\ st_run.trigger = "load" /\ st_pc # "start")
         => /\ session_state.clicked_sites = KeyNone
            /\ session_state.map_zoom = KeyVal(6)
            /\ session_state.map_center = KeyVal(ListCenter(44, -121))
    /\ (app = "dash" /\ event.kind = "refresh" /\ pend_zoom = Idle)
         => map_zoom_store = InitialZoomStore
    /\ (app = "streamlit" /\ st_run.trigger = "refresh" /\ st_run.reruns = 1
          /\ st_pc = "sidebar")
         => session_state.map_zoom = KeyVal(StDefaultZoom)

\* the stores hold the whole effect of a refresh, or nothing of it
RefreshWhollyApplied ==
    << clicked_sites_store, map_zoom_store, map_center_store >>
      \in { << event.clicked, event.zoom, event.center >>,
            << None, RefreshZoom, RefreshCenter >> }

\* C13: a trigger is processed as one step: between two triggers no state of
\* the stores shows a part of a trigger's effect only, such as a refresh whose
\* highlight reset is in the stores while its viewport reset is not (or the
\* reverse), although update_zoom_and_center and update_clicked_sites are
\* separate callbacks.
C13_TriggersAtomic ==
    (app = "dash" /\ event.kind = "refresh") => RefreshWhollyApplied


\* the reducer call that was made without a trigger, if one was
NoTriggerCall ==
    /\ call.fn \in {"update_zoom_and_center", "update_clicked_sites"}
    /\ call.args[1] = NoTrigger

\* C12: when a reducer runs with no trigger (initial load), the highlighted
\* sites, the zoom and the center after the step equal their values before
\* the step, whatever the values and the view properties were.
C12_NoTriggerKeepsState ==
    NoTriggerCall =>
        /\ clicked_sites_store = event.clicked
        /\ map_zoom_store = event.zoom
        /\ map_center_store = event.center

\* a no-trigger call on a session that has a selection and a moved viewport
C12_Witness ==
    /\ NoTriggerCall
    /\ call.fn = "update_clicked_sites" /\ call.args[2] # None
    /\ event.clicked # None /\ clicked_sites_store = event.clicked
    /\ event.zoom # RefreshZoom /\ map_zoom_store = event.zoom

\* the value, the boundaries and the colour of a call of
\* _add_color_map_column on a one-row frame
BinCall == call.fn = "_add_color_map_column"
BinValue == call.args[1].rows[1].value
BinTable == call.args[2].rows
Thresholds == { BinTable[i].bin : i \in DOMAIN BinTable }
ColorOf(t) == (CHOOSE r \in Range(BinTable) : r.bin = t).color
AssignedColor == Returned(call.out).rows[1].color_rgba

\* C14: for every non-missing value v and every non-empty bin table with
\* strictly increasing thresholds, v gets the colour of the smallest
\* threshold strictly greater than v, or of the maximum threshold when none
\* is; a value equal to a non-maximal threshold gets the colour of the next
\* threshold above it, and a value at or above the top gets the last colour
\* without error.
C14_BinColor ==
    (BinCall /\ BinValue # None /\ Thresholds # {}) =>
        /\ ~Raised(call.out)
        /\ \A t \in Thresholds :
             \/ /\ t > Val(BinValue)
                /\ \A u \in Thresholds : u > Val(BinValue) => t <= u
             \/ /\ \A u \in Thresholds : u <= Val(BinValue) /\ u <= t
             \/ AssignedColor # Some(ColorOf(t))
        /\ \E t \in Thresholds : AssignedColor = Some(ColorOf(t))
        /\ \A t \in Thresholds :
             (Val(BinValue) = t /\ \E u \in Thresholds : u > t)
               => AssignedColor = Some(ColorOf(Min({u \in Thresholds : u > t})))
        /\ (\A t \in Thresholds : Val(BinValue) >= t)
               => AssignedColor = Some(BinTable[Len(BinTable)].color)

\* a value equal to a non-maximal threshold was coloured
C14_Witness ==
    /\ BinCall /\ BinValue = Some(20) /\ Thresholds = {10, 20, 30}
    /\ AssignedColor = Some("green")

\* a value above the top threshold was coloured
C14_WitnessAboveTop ==
    /\ BinCall /\ BinValue = Some(35) /\ Thresholds = {10, 20}
    /\ AssignedColor = Some("yellow")

\* the colour the table (10, red), (20, yellow), (30, green) gives v
ExampleColor(v, c) ==
    (BinCall /\ BinValue = Some(v) /\ Thresholds = {10, 20, 30}
       /\ BinTable = ColormapRows({10, 20, 30}))
      => (~Raised(call.out) /\ AssignedColor = Some(c))

\* C15 as stated: with T = [(10, red), (20, yellow), (30, green)],
\* bin_color(25, T) = yellow, bin_color(35, T) = green, bin_color(10, T) = yellow.
C15_ExampleAsStated ==
    /\ ExampleColor(25, "yellow")
    /\ ExampleColor(35, "green")
    /\ ExampleColor(10, "yellow")

\* C15: with T = [(10, red), (20, yellow), (30, green)],
\* bin_color(25, T) = green (30 is the smallest threshold above 25),
\* bin_color(35, T) = green and bin_color(10, T) = yellow.
C15_Example ==
    /\ ExampleColor(25, "green")
    /\ ExampleColor(35, "green")
    /\ ExampleColor(10, "yellow")

\* 25 was coloured with the example table
C15_Witness ==
    /\ BinCall /\ BinValue = Some(25) /\ BinTable = ColormapRows({10, 20, 30})
    /\ AssignedColor = Some("green")

\* a file that is missing or holds no row
NoData(file) ==
    \/ ~ file.exists
    \/ file.content = None
    \/ Val(file.content).rows = << >>

\* C16: loading a category whose measurement file or colour-bin file is
\* missing or empty never raises: load_raw_data substitutes an empty table
\* for the missing file, and load_processed_data for that category returns
\* an empty table.
C16_MissingDataNeverRaises ==
    /\ call.fn = "load_raw_data" =>
         LET files == call.args[1]
         IN  (\E key \in FileKeys \ {"sites", "geocode"} : NoData(files[key])) =>
               /\ ~ Raised(call.out)
               /\ \A key \in FileKeys :
                    ~ files[key].exists => Returned(call.out)[key] = EmptyDataFrame
    /\ call.fn = "load_processed_data" =>
         LET files == call.args[1]
             data_key == call.args[2]
         IN  (NoData(files[data_key]) \/ NoData(files[colormap_config(data_key)[1]])) =>
               /\ ~ Raised(call.out)
               /\ Returned(call.out).rows = << >>

\* C17: a category key outside the enumerated set of questions fails fast
\* with a configuration error before any data is loaded or any view is
\* rendered, and leaves the selection and the viewport unchanged; every key
\* inside the set returns that category's configuration.
C17_UnknownCategoryFailsFast ==
    /\ (call.fn = "update_dashboard" /\ call.args[3] \notin MeasTypeKeys) =>
         /\ call.out.out = Raise("ValueError")
         /\ call.out.loads = 0
         /\ figure = None
         /\ clicked_sites_store = event.clicked
         /\ map_zoom_store = event.zoom
         /\ map_center_store = event.center
    /\ call.fn = "get_meas_type_config" =>
         IF call.args[1] \in MeasTypeKeys
         THEN /\ ~ Raised(call.out)
              /\ Returned(call.out) = meas_type_dict(call.args[1])
         ELSE call.out = Raise("ValueError")

\* update_dashboard was invoked with an unknown key on a session that has a
\* selection, and with the refresh button as trigger
C17_Witness ==
    /\ call.fn = "update_dashboard" /\ call.args[3] = "unknown_question"
    /\ call.args[2] = "refresh-btn"
    /\ Raised(call.out.out)
    /\ clicked_sites_store = Some({"SiteA", "SiteB"})

\* a key of the set was looked up
C17_WitnessKnownKey ==
    /\ call.fn = "get_meas_type_config" /\ call.args[1] = "long_term_trends"
    /\ Returned(call.out).data_key = "trends"

\* the measurement rows, the coordinate rows and the result of a call of
\* load_processed_data that returned
Loaded == call.fn = "load_processed_data" /\ ~ Raised(call.out)
MeasurementRows == Val(call.args[1][call.args[2]].content).rows
CoordinateRows == Val(call.args[1]["geocode"].content).rows
LoadedRows == Returned(call.out).rows
HasCoordinates(name) == \E g \in Range(CoordinateRows) : g.site_name = name

\* C18: load(category) is a left join of the category's measurement rows
\* with the site coordinates by site name: every measurement row appears in
\* the result, a row whose site has no coordinate entry is kept with null
\* latitude and longitude, and no coordinate-only site appears.
C18_LeftJoin ==
    Loaded =>
        /\ Len(LoadedRows) = Len(MeasurementRows)
        /\ \A i \in DOMAIN MeasurementRows :
             /\ LoadedRows[i].site_name = MeasurementRows[i].site_name
             /\ LoadedRows[i].value = MeasurementRows[i].value
             /\ IF HasCoordinates(LoadedRows[i].site_name)
                THEN \E g \in Range(CoordinateRows) :
                       /\ g.site_name = LoadedRows[i].site_name
                       /\ LoadedRows[i].latitude = g.latitude
                       /\ LoadedRows[i].longitude = g.longitude
                ELSE /\ LoadedRows[i].latitude = None
                     /\ LoadedRows[i].longitude = None
        /\ \A r \in Range(LoadedRows) :
             \E m \in Range(MeasurementRows) : m.site_name = r.site_name

\* a load where one measured site has no coordinates and one site with
\* coordinates has no measurement
C18_Witness ==
    /\ Loaded
    /\ \E r \in Range(LoadedRows) :
         ~ HasCoordinates(r.site_name) /\ r.latitude = None
    /\ \E r \in Range(LoadedRows) : r.latitude # None
    /\ \E g \in Range(CoordinateRows) :
         \A m \in Range(MeasurementRows) : m.site_name # g.site_name

\* a ranking call that returned rows, and the rows it returned
Ranked ==
    /\ call.fn \in {"_prepare_chart_data", "get_ranking_data"}
    /\ ~ Raised(call.out)
RankedRows == Returned(call.out).rows
Ascending(rows) ==
    \A i \in 1..(Len(rows) - 1) : Val(rows[i].value) <= Val(rows[i + 1].value)
Descending(rows) ==
    \A i \in 1..(Len(rows) - 1) : Val(rows[i].value) >= Val(rows[i + 1].value)

\* C19 as stated: for every metric column, the ranking returns the rows
\* ordered ascending by that metric: of two consecutive rows the earlier
\* one's value is less than or equal to the later one's.
C19_AscendingAsStated ==
    Ranked => Ascending(RankedRows)

\* C19: the chart ranking returns the rows descending by the metric column,
\* except for median_brightness_mag_arcsec2, which it returns ascending; the
\* ranking of the API returns them ascending when sort_order is 'asc' and
\* descending otherwise.
C19_RankOrder ==
    /\ (Ranked /\ call.fn = "_prepare_chart_data") =>
         IF call.args[2] = "median_brightness_mag_arcsec2"
         THEN Ascending(RankedRows)
         ELSE Descending(RankedRows)
    /\ (Ranked /\ call.fn = "get_ranking_data") =>
         IF call.args[4] = "asc"
         THEN Ascending(RankedRows)
         ELSE Descending(RankedRows)

\* a chart ranking of rows with different values on a column other than
\* the median brightness
C19_Witness ==
    /\ Ranked /\ call.fn = "_prepare_chart_data" /\ call.args[2] = "ratio_index"
    /\ Len(RankedRows) = 3
    /\ RankedRows[1].value = Some(2) /\ RankedRows[3].value = Some(1)

\* a chart ranking on the median brightness
C19_WitnessBrightness ==
    /\ Ranked /\ call.fn = "_prepare_chart_data"
    /\ call.args[2] = "median_brightness_mag_arcsec2"
    /\ Len(RankedRows) = 2
    /\ RankedRows[1].value = Some(1) /\ RankedRows[2].value = Some(2)

\* how often a row occurs in a sequence of rows
Occurrences(row, rows) == Cardinality({ i \in DOMAIN rows : rows[i] = row })
Complete(row) == row.value # None /\ row.site_name # None

\* C20: ranking drops, without error, every row whose metric value or site
\* name is missing and keeps every other row: the output holds exactly the
\* input rows that have both fields present.
C20_RankingDropsIncompleteRows ==
    (call.fn = "_prepare_chart_data"
       /\ {call.args[2], "site_name"} \subseteq call.args[1].columns) =>
        /\ ~ Raised(call.out)
        /\ \A row \in Range(RankedRows) : Complete(row)
        /\ \A row \in Range(call.args[1].rows) :
             Complete(row) =>
               Occurrences(row, RankedRows) = Occurrences(row, call.args[1].rows)
        /\ Range(RankedRows) \subseteq Range(call.args[1].rows)

\* a site with one row without a metric value and one row with one, and a
\* row without a site name
C20_Witness ==
    /\ call.fn = "_prepare_chart_data" /\ ~ Raised(call.out)
    /\ Row(Some("SiteA"), None) \in Range(call.args[1].rows)
    /\ Row(None, Some(1)) \in Range(call.args[1].rows)
    /\ Row(Some("SiteA"), Some(2)) \in Range(call.args[1].rows)
    /\ RankedRows = << Row(Some("SiteA"), Some(2)) >>

\* the place of a row in the frame a ranking was called on (the frames of
\* interest hold no row twice)
LoadOrder(row) == CHOOSE i \in DOMAIN call.args[1].rows : call.args[1].rows[i] = row
NoRowTwice(rows) == \A i, j \in DOMAIN rows : rows[i] = rows[j] => i = j

\* C21: ranking is a stable sort: any two rows with equal metric values
\* appear in the ranked output in the same relative order as in the load
\* order of the input.
C21_StableSort ==
    (call.fn = "_prepare_chart_data" /\ ~ Raised(call.out)
       /\ NoRowTwice(call.args[1].rows)) =>
        \A i, j \in DOMAIN RankedRows :
           (i < j /\ RankedRows[i].value = RankedRows[j].value)
             => LoadOrder(RankedRows[i]) < LoadOrder(RankedRows[j])

\* the rows, the highlight set and the markers of an aggregation
Aggregated == call.fn = "aggregate_by_location"
AggregatedRows == call.args[1]
Markers == Range(Returned(call.out))
Located(rows) == { r \in Range(rows) : r.latitude # None /\ r.longitude # None }
MembersAt(lat, lon) ==
    { r \in Located(AggregatedRows) : r.latitude = lat /\ r.longitude = lon }
Reordered(rows) ==
    { [ i \in DOMAIN rows |-> rows[p[i]] ] : p \in Permutations(DOMAIN rows) }

\* C22: spatial aggregation is independent of the order of the input rows:
\* every permutation of the rows yields the same set of markers, one per
\* distinct (lat, lon), each with the same member site names, the colour of
\* the member row with the maximum colour-metric value at that location, and
\* highlighted exactly when a member site name is in highlighted_sites.
C22_AggregationOrderIndependent ==
    Aggregated =>
        /\ \A reordered \in Reordered(AggregatedRows) :
             Range(aggregate_by_location(reordered, HighlightSet(call.args[2])))
               = Markers
        /\ Len(Returned(call.out)) = Cardinality(Markers)
        /\ { << m.latitude, m.longitude >> : m \in Markers }
             = { << r.latitude, r.longitude >> : r \in Located(AggregatedRows) }
        /\ \A m \in Markers :
             LET members == MembersAt(m.latitude, m.longitude)
             IN  /\ m.site_names = UNION { r.site_name : r \in members }
                 /\ \E r \in members :
                      /\ m.representative_color = r.color_rgba
                      /\ \A o \in members :
                           o.value # None =>
                             (r.value # None /\ Val(r.value) >= Val(o.value))
                 /\ m.highlighted
                      <=> (m.site_names \cap HighlightSet(call.args[2]) # {})

\* two sites at one location with different colours, the brighter one last,
\* one of them highlighted, and a third site elsewhere
C22_Witness ==
    /\ Aggregated
    /\ Len(AggregatedRows) = 3
    /\ AggregatedRows[1].site_name = Some("SiteB")
    /\ AggregatedRows[1].color_rgba = Some("yellow")
    /\ AggregatedRows[3].site_name = Some("SiteA")
    /\ AggregatedRows[3].color_rgba = Some("green")
    /\ call.args[2] = Some({"SiteB"})
    /\ Cardinality(Markers) = 2
    /\ \E m \in Markers :
         /\ m.site_names = {"SiteA", "SiteB"}
         /\ m.representative_color = Some("green")
         /\ m.highlighted

\* the bin table file of each category, and the colours of the bin table
\* of the category that was loaded
BinTableOf(data_key) ==
    CASE data_key = "clear_measurements"  -> "colormap_clear"
      [] data_key = "cloudy_measurements" -> "colormap_cloudy"
      [] data_key = "trends"              -> "colormap_trends"
      [] data_key = "milky_way"           -> "colormap_milky_way"
      [] data_key = "cloud_coverage"      -> "colormap_cloud_coverage"
CategoryColors ==
    LET file == call.args[1][BinTableOf(call.args[2])]
    IN  IF file.content = None THEN {}
        ELSE { Some(r.color) : r \in Range(Val(file.content).rows) }

C23_WitnessNoValue ==
    /\ Loaded
    /\ \E row \in Range(LoadedRows) : row.value = None /\ row.color_rgba # None

\* C24: in the Dash front-end the stored map zoom never exceeds 10: from the
\* initial store value, after any sequence of viewport, refresh, click,
\* category and no-trigger steps (viewport events with a center and no zoom
\* included), map-zoom-store holds at most 10.
C24_StoredZoomAtMostTen ==
    app = "dash" => map_zoom_store <= 10

\* a viewport event asking for zoom 15 was handled while the store held 10
C24_Witness ==
    /\ app = "dash" /\ event.kind = "relayout" /\ pend_zoom = Idle
    /\ relayoutData # None /\ Val(relayoutData).map_zoom = KeyVal(15)
    /\ event.zoom = 10 /\ map_zoom_store = 10

\* a viewport event with a center and no zoom was handled at zoom 10
C24_WitnessCenterOnly ==
    /\ app = "dash" /\ event.kind = "relayout" /\ pend_zoom = Idle
    /\ RelayoutTruthy(relayoutData) /\ ~ CarriesZoom(Val(relayoutData))
    /\ CarriesCenter(Val(relayoutData))
    /\ event.zoom = 10 /\ map_zoom_store = 10

\* C25: every execution of update_clicked_sites, whatever its trigger (map,
\* bar or scatter click, refresh, no trigger, or a trigger with an empty
\* payload), outputs an empty click payload for all three views: after any
\* step of the reducer no view holds a click payload.
C25_EveryRunClearsPayloads ==
    [][ RunUpdateClickedSites =>
          /\ map_clickData' = None
          /\ bar_clickData' = None
          /\ scatter_clickData' = None ]_vars

\* a scatter click was consumed and the three payloads are empty
C25_Witness ==
    /\ app = "dash" /\ event.kind = "scatter_click" /\ pend_click = Idle
    /\ clicked_sites_store = event.payload /\ event.payload # None
    /\ map_clickData = None /\ bar_clickData = None /\ scatter_clickData = None

\* update_clicked_sites is to run for a view whose click payload is empty
EmptyPayloadTrigger ==
    /\ app = "dash"
    /\ pend_click \in {"oregon-map", "bar-chart", "scatter-plot"}
    /\ ClickPayload(pend_click) = None

\* C26: when update_clicked_sites is triggered by a view whose click payload
\* is empty (the reducer's own clearing of the payload changed the input),
\* the highlight set is left as it is, and no further execution follows:
\* the clearing reaches its fixed point after at most one more execution.
C26_EmptyPayloadKeepsSelection ==
    [][ (EmptyPayloadTrigger /\ RunUpdateClickedSites) =>
          /\ clicked_sites_store' = clicked_sites_store
          /\ pend_click' = Idle ]_vars

\* the reducer has consumed a map click and is to run again for the payload
\* it emptied
C26_Witness ==
    /\ EmptyPayloadTrigger /\ pend_click = "oregon-map"
    /\ event.kind = "map_click"
    /\ clicked_sites_store = event.payload /\ clicked_sites_store # None

\* C27: the max-zoom flag is true exactly when the most recent execution of
\* update_zoom_and_center was triggered by a map viewport event whose
\* resulting zoom exceeded 10: the flag starts false, every execution sets
\* it to that outcome (a viewport event with zoom at most 10, a refresh, a
\* no-trigger run and an empty relayout payload reset it), and nothing else
\* changes it.
C27_FlagFollowsLastZoomRun ==
    /\ max_zoom_violation_store = FALSE
    /\ [][ /\ RunUpdateZoomAndCenter =>
                (max_zoom_violation_store' = TRUE
                   <=> /\ pend_zoom = "oregon-map"
                       /\ RelayoutTruthy(relayoutData)
                       /\ RelayoutZoom(Val(relayoutData), map_zoom_store) > 10)
           /\ (app = "dash" /\ max_zoom_violation_store' # max_zoom_violation_store)
                => RunUpdateZoomAndCenter ]_vars

\* the flag raised by a viewport event is still up while a later click is
\* served
C27_Witness ==
    /\ app = "dash" /\ max_zoom_violation_store = TRUE
    /\ event.kind = "bar_click" /\ pend_click = Idle

\* the flag is down again after a refresh that followed a clamped zoom
C27_WitnessReset ==
    /\ app = "dash" /\ event.kind = "refresh" /\ pend_zoom = Idle
    /\ event.zoom = 10 /\ max_zoom_violation_store = FALSE

\* the sites within the tolerance of the clicked point of a Streamlit click
ClickedLocation == Val(st_run.payload)
MatchedSites == SiteRow(st_meas_type, ClickedLocation[1], ClickedLocation[2])
\* a point of the map no site is within the tolerance of
NoSiteLocation == << 0, 0 >>

\* C28: in Streamlit a map click whose location matches a site causes a
\* rerun only when the matched site names differ from the current
\* clicked_sites; the reruns caused by one click end after at most one
\* rerun, with clicked_sites equal to all the sites within 1e-4 of the
\* clicked point; a click matching no site changes nothing and causes no
\* rerun.
C28_ClickRerunsAtMostOnce ==
    /\ (app = "streamlit" /\ st_run.trigger = "click") =>
         /\ st_run.reruns <= 1
         /\ MatchedSites # {}
         /\ st_run.reruns = 1
              => ~ SameSelection(st_run.before.clicked_sites, MatchedSites)
         /\ st_pc = "idle" =>
              /\ session_state.clicked_sites = KeyVal(MatchedSites)
              /\ st_run.reruns = 1
                   <=> ~ SameSelection(st_run.before.clicked_sites, MatchedSites)
    /\ app = "streamlit" =>
         ClickHandling(session_state,
                       [map_data EXCEPT !.last_object_clicked = Some(NoSiteLocation)],
                       st_meas_type)
           = [ss |-> session_state, rerun |-> FALSE]

\* a click on a marker of two sites while another site was selected has
\* been served with one rerun
C28_Witness ==
    /\ app = "streamlit" /\ st_run.trigger = "click" /\ st_pc = "idle"
    /\ st_run.reruns = 1
    /\ st_run.before.clicked_sites # KeyNone
    /\ Cardinality(MatchedSites) = 2
    /\ session_state.clicked_sites = KeyVal(MatchedSites)

\* a click on the marker of the sites that are selected already has been
\* served without a rerun
C28_WitnessSameSites ==
    /\ app = "streamlit" /\ st_run.trigger = "click" /\ st_pc = "idle"
    /\ st_run.reruns = 0
    /\ st_run.before.clicked_sites = KeyVal(MatchedSites)

\* what update_dashboard draws on a refresh
RefreshFigure == Some(Figure(meas_type, 5, << 44, -121 >>, None))

\* C29: whenever update_dashboard runs with refresh-btn as its trigger, the
\* figures it renders use the default zoom, the default center
\* [44.0, -121.0] and no highlighted site, whatever the zoom, center and
\* clicked-sites stores hold at that moment (whether or not the two
\* reducers have processed the refresh already); and once the three
\* callbacks have finished, the last render agrees with the stores.
C29_RefreshRenderUsesDefaults ==
    /\ [][ (RunUpdateDashboard /\ pend_dash = {"refresh-btn"})
             => figure' = RefreshFigure ]_vars
    /\ [] ( (app = "dash" /\ event.kind = "refresh" /\ Settled)
              => /\ figure = RefreshFigure
                 /\ figure = Some(Figure(meas_type, map_zoom_store, map_center_store,
                                         clicked_sites_store)) )

\* update_dashboard has rendered the refresh while the stores still hold a
\* moved viewport and a selection
C29_Witness ==
    /\ app = "dash" /\ event.kind = "refresh" /\ pend_dash = {}
    /\ pend_zoom = "refresh-btn" /\ pend_click = "refresh-btn"
    /\ map_zoom_store # 5 /\ map_center_store # << 44, -121 >>
    /\ clicked_sites_store # None
    /\ figure = RefreshFigure

\* a viewport event has been handled by update_zoom_and_center
ViewportEventHandled ==
    /\ app = "dash" /\ event.kind = "relayout" /\ pend_zoom = Idle
    /\ relayoutData # None

\* C30: a map viewport event with resulting zoom at most 10 changes only the
\* viewport fields its payload carries: without a zoom key the stored zoom
\* is unchanged, without a center key the stored center is unchanged, and
\* with an empty relayout payload both are unchanged.
C30_ViewportEventFrame ==
    ViewportEventHandled =>
        LET rd == Val(relayoutData)
        IN  /\ rd = EmptyRelayout
                 => /\ map_zoom_store = event.zoom
                    /\ map_center_store = event.center
            /\ (rd # EmptyRelayout /\ RelayoutZoom(rd, event.zoom) <= 10)
                 => /\ (~ CarriesZoom(rd)) => map_zoom_store = event.zoom
                    /\ (~ CarriesCenter(rd)) => map_center_store = event.center

\* an event with a center and no zoom was handled away from the default zoom
C30_Witness ==
    /\ ViewportEventHandled
    /\ ~ CarriesZoom(Val(relayoutData)) /\ CarriesCenter(Val(relayoutData))
    /\ event.zoom # RefreshZoom /\ map_zoom_store = event.zoom
    /\ map_center_store # event.center

\* an event with a zoom and no center was handled away from the default center
C30_WitnessZoomOnly ==
    /\ ViewportEventHandled
    /\ CarriesZoom(Val(relayoutData)) /\ ~ CarriesCenter(Val(relayoutData))
    /\ event.center = PannedCenter /\ map_center_store = PannedCenter
    /\ map_zoom_store # event.zoom

====
